---- MODULE Spec2Model ----
(***************************************************************************)
(* Normalization, merge and bin-based analyses of the paleontology         *)
(* analytics pipeline (src/src/normalization, src/src/analysis).           *)
(*                                                                         *)
(* Numbers are fixed point: a cell Num(n) stands for the float n / Scale,  *)
(* so 500 Ma is Num(2000) and 2.5 Ma is Num(10).  The inputs are chosen so *)
(* that every division the code performs is exact in this representation.  *)
(***************************************************************************)
EXTENDS Integers, Sequences, FiniteSets, TLC

VARIABLES
    fs,         \* the file system: path -> [ok, ctime, df]
    ret,        \* what the last call returned: [op, val]
    diversity,  \* plot_diversity_curve's series: time_bin -> nunique(genus)
    sqs,        \* calculate_sqs_diversity's sqs_results, one per quota run
    rates,      \* calculate_rates' results list
    procDir,    \* the processed-data directory the calls are given
    bins,       \* the frame a component holds once it has assigned its bins: [component, df]
    network,    \* analyze_biogeographic_dynamics' results list
    web,        \* export_dashboard_data's final_data
    nullModel,  \* calculate_null_model's output
    lib,        \* what the graph library answered during the last call
    rng,        \* where the generator seeded with random_state=42 starts drawing
    heavy       \* the rows of df_heavy in the last export_dashboard_data call

netVars == <<bins, network, web, nullModel, lib, rng, heavy>>

vars == <<fs, ret, diversity, sqs, rates, procDir, bins, network, web, nullModel, lib,
          rng, heavy>>

Scale == 4

(***************************************************************************)
(* Cell values of a DataFrame                                              *)
(***************************************************************************)
Num(n) == [kind |-> "num", n |-> n, m |-> 0, s |-> ""]
Str(s) == [kind |-> "str", n |-> 0, m |-> 0, s |-> s]
NaN == [kind |-> "nan", n |-> 0, m |-> 0, s |-> ""]
None == [kind |-> "none", n |-> 0, m |-> 0, s |-> ""]
\* a JSON object of a Neotoma record: {"age": n} or {"geography": {"coordinates": [n, m]}}
Dict(key, n, m) == [kind |-> "dict", n |-> n, m |-> m, s |-> key]

\* pandas.isna
IsNull(v) == v.kind \in {"nan", "none"}

Range(f) == {f[i] : i \in DOMAIN f}

(***************************************************************************)
(* schema.py                                                               *)
(***************************************************************************)
SchemaKeys ==
    <<"occurrence_id", "scientific_name", "rank", "max_ma", "min_ma", "mid_ma",
      "lat", "lng", "phylum", "class", "order", "family", "genus",
      "environment", "source_db", "reference_no", "primary_reference">>

OCCURRENCE_SCHEMA ==
    [c \in Range(SchemaKeys) |->
        IF c \in {"max_ma", "min_ma", "mid_ma", "lat", "lng"}
        THEN "float64" ELSE "string"]

PBDB_MAPPING ==
    [occurrence_no |-> "occurrence_id", identified_name |-> "scientific_name",
     identified_rank |-> "rank", max_ma |-> "max_ma", min_ma |-> "min_ma",
     lat |-> "lat", lng |-> "lng", phylum |-> "phylum", class |-> "class",
     order |-> "order", family |-> "family", genus |-> "genus",
     environment |-> "environment", reference_no |-> "reference_no",
     primary_reference |-> "primary_reference"]

neotoma_mapping ==
    [occurrenceid |-> "occurrence_id", taxonname |-> "scientific_name",
     age |-> "mid_ma"]

(***************************************************************************)
(* DataFrame operations: a frame is [cols: sequence of labels, rows:       *)
(* sequence of functions label -> cell]                                    *)
(***************************************************************************)
EmptyFrame == [cols |-> <<>>, rows |-> <<>>]

\* the rows of a frame held as a list, each row computed once
AsList(rows) == SubSeq(rows, 1, Len(rows))

\* df[c] = F(row)
SetColumn(df, c, F(_)) ==
    [cols |-> IF c \in Range(df.cols) THEN df.cols ELSE Append(df.cols, c),
     rows |-> AsList([i \in 1..Len(df.rows) |-> (c :> F(df.rows[i])) @@ df.rows[i]])]

RenameCol(mapping, c) == IF c \in DOMAIN mapping THEN mapping[c] ELSE c

\* df.rename(columns=mapping)
Rename(df, mapping) ==
    [cols |-> [i \in 1..Len(df.cols) |-> RenameCol(mapping, df.cols[i])],
     rows |-> [i \in 1..Len(df.rows) |->
                [c \in {RenameCol(mapping, k) : k \in DOMAIN df.rows[i]} |->
                    df.rows[i][CHOOSE k \in DOMAIN df.rows[i] :
                                   RenameCol(mapping, k) = c]]]]

\* df[list_of_labels]
SelectColumns(df, labels) ==
    [cols |-> labels,
     rows |-> [i \in 1..Len(df.rows) |-> [c \in Range(labels) |-> df.rows[i][c]]]]

\* df.dropna(subset=...)
DropNa(df, subset) ==
    [cols |-> df.cols,
     rows |-> SelectSeq(df.rows, LAMBDA r : \A c \in subset : ~IsNull(r[c]))]

RECURSIVE ConcatCols(_, _)
ConcatCols(acc, more) ==
    IF more = <<>> THEN acc
    ELSE ConcatCols(IF Head(more) \in Range(acc) THEN acc ELSE Append(acc, Head(more)),
                    Tail(more))

RECURSIVE Concat(_)
\* pd.concat(dfs, ignore_index=True): the union of the columns, absent cells NaN
Concat(dfs) ==
    IF dfs = <<>> THEN EmptyFrame
    ELSE LET rest == Concat(Tail(dfs))
             cols == ConcatCols(Head(dfs).cols, rest.cols)
             Widen(r) == [c \in Range(cols) |-> IF c \in DOMAIN r THEN r[c] ELSE NaN]
         IN  [cols |-> cols,
              rows |-> [i \in 1..Len(Head(dfs).rows) |-> Widen(Head(dfs).rows[i])]
                       \o [i \in 1..Len(rest.rows) |-> Widen(rest.rows[i])]]

\* the strings pd.to_numeric parses, with their fixed-point values
NumericStrings == [s \in {"10", "5"} |-> IF s = "10" THEN 10 * Scale ELSE 5 * Scale]

\* pd.to_numeric(x, errors='coerce') on one cell
ToNumeric(v) ==
    CASE v.kind = "num" -> v
      [] v.kind = "str" -> IF v.s \in DOMAIN NumericStrings
                           THEN Num(NumericStrings[v.s]) ELSE NaN
      [] OTHER -> NaN

\* str(x) of a number cell (integral values print as int64 does)
FormatNum(n) ==
    IF n % Scale = 0 THEN ToString(n \div Scale)
    ELSE ToString(n \div Scale) \o "." \o ToString((n % Scale) * 25)

\* Series.astype(str) on one cell: nulls become their literal names
AsTypeStr(v) ==
    CASE v.kind = "str" -> v
      [] v.kind = "nan" -> Str("nan")
      [] v.kind = "none" -> Str("None")
      [] v.kind = "num" -> Str(FormatNum(v.n))
      [] OTHER -> Str("{" \o v.s \o "}")

(***************************************************************************)
(* Paths and the file system                                               *)
(***************************************************************************)
Join(dir, name) == dir \o "/" \o name

\* the Python test `sub in text`
Contains(text, sub) ==
    \E i \in 1..(Len(text) - Len(sub) + 1) : SubSeq(text, i, i + Len(sub) - 1) = sub

\* glob.glob(os.path.join(dir, prefix + "*" + suffix)) on one path
GlobMatch(p, dir, prefix, suffix) ==
    LET pre == Join(dir, prefix) IN
    /\ Len(p) >= Len(pre) + Len(suffix)
    /\ SubSeq(p, 1, Len(pre)) = pre
    /\ SubSeq(p, Len(p) - Len(suffix) + 1, Len(p)) = suffix
    /\ ~Contains(SubSeq(p, Len(pre) + 1, Len(p) - Len(suffix)), "/")

Glob(dir, prefix, suffix) == {p \in DOMAIN fs : GlobMatch(p, dir, prefix, suffix)}

File(ok, ctime, df) == [ok |-> ok, ctime |-> ctime, df |-> df]

\* every order in which glob may list a set of paths
Orderings(S) ==
    {o \in [1..Cardinality(S) -> S] : \A i, j \in DOMAIN o : i # j => o[i] # o[j]}

\* the read loop giving up at the first file that cannot be read
RECURSIVE ReadAllUntilError(_)
ReadAllUntilError(paths) ==
    IF paths = <<>> \/ ~fs[Head(paths)].ok THEN <<>>
    ELSE <<fs[Head(paths)].df>> \o ReadAllUntilError(Tail(paths))

\* the frames of the files that could be read, in listing order
RECURSIVE ReadAll(_)
ReadAll(paths) ==
    IF paths = <<>> THEN <<>>
    ELSE (IF fs[Head(paths)].ok THEN <<fs[Head(paths)].df>> ELSE <<>>)
         \o ReadAll(Tail(paths))

RawDir == "data/raw"

Returned(op, val) == [op |-> op, val |-> val]

(***************************************************************************)
(* normalize.py                                                            *)
(***************************************************************************)
\* for col in OCCURRENCE_SCHEMA.keys(): if col not in df.columns: df[col] = None
RECURSIVE AddMissing(_, _)
AddMissing(df, keys) ==
    IF keys = <<>> THEN df
    ELSE AddMissing(IF Head(keys) \in Range(df.cols) THEN df
                    ELSE SetColumn(df, Head(keys), LAMBDA r : None),
                    Tail(keys))

\* the dtype loop of _finalize_dataframe on one row
CoerceRow(r) ==
    [c \in DOMAIN r |->
        IF OCCURRENCE_SCHEMA[c] = "string" THEN AsTypeStr(r[c]) ELSE ToNumeric(r[c])]

\* the frame _finalize_dataframe writes
Finalized(df) ==
    LET sel == SelectColumns(AddMissing(df, SchemaKeys), SchemaKeys)
    IN  [cols |-> sel.cols,
         rows |-> [i \in 1..Len(sel.rows) |-> CoerceRow(sel.rows[i])]]

FinalizeDataframe(df, output_dir, filename, op) ==
    /\ fs' = (Join(output_dir, filename) :> File(TRUE, 0, Finalized(df))) @@ fs
    /\ ret' = Returned(op, Join(output_dir, filename))

\* (max_ma + min_ma) / 2 on two float cells
MidPoint(a, b) == IF IsNull(a) \/ IsNull(b) THEN NaN ELSE Num((a.n + b.n) \div 2)

\* normalize_pbdb lines 41-45 reach df["min_ma"] on a frame without that column
PbdbKeyError(df) ==
    /\ "mid_ma" \notin Range(df.cols)
    /\ "max_ma" \in Range(df.cols)
    /\ "min_ma" \notin Range(df.cols)

\* normalize_pbdb lines 41-45
PbdbDeriveMid(df) ==
    IF "mid_ma" \notin Range(df.cols) /\ "max_ma" \in Range(df.cols)
    THEN LET d1 == SetColumn(df, "max_ma", LAMBDA r : ToNumeric(r["max_ma"]))
             d2 == SetColumn(d1, "min_ma", LAMBDA r : ToNumeric(r["min_ma"]))
         IN  SetColumn(d2, "mid_ma", LAMBDA r : MidPoint(r["max_ma"], r["min_ma"]))
    ELSE df

\* normalize_pbdb lines 38-39
PbdbRenamed(df) == SetColumn(Rename(df, PBDB_MAPPING), "source_db", LAMBDA r : Str("PBDB"))

\* the file system without the file at path
Without(files, path) == [p \in DOMAIN files \ {path} |-> files[p]]

\* normalize_pbdb removing the table of an earlier run when it reads no input
NormalizePbdbClearing ==
    LET files == Glob(RawDir, "pbdb_occurrences_", ".csv") IN
    /\ UNCHANGED <<diversity, sqs, rates, procDir, netVars>>
    /\ \E order \in Orderings(files) :
          LET dfs == ReadAll(order) IN
          IF dfs = <<>>
          THEN /\ ret' = Returned("normalize_pbdb", "None")
               /\ fs' = Without(fs, Join(procDir, "pbdb_occurrences.parquet"))
          ELSE LET df == PbdbRenamed(Concat(dfs)) IN
               IF PbdbKeyError(df)
               THEN ret' = Returned("normalize_pbdb", "KeyError") /\ UNCHANGED fs
               ELSE FinalizeDataframe(PbdbDeriveMid(df), procDir,
                                      "pbdb_occurrences.parquet", "normalize_pbdb")

NormalizePbdb ==
    LET files == Glob(RawDir, "pbdb_occurrences_", ".csv") IN
    /\ UNCHANGED <<diversity, sqs, rates, procDir, netVars>>
    /\ IF files = {}
       THEN ret' = Returned("normalize_pbdb", "None") /\ UNCHANGED fs
       ELSE \E order \in Orderings(files) :
              LET dfs == ReadAll(order) IN
              IF dfs = <<>>
              THEN ret' = Returned("normalize_pbdb", "None") /\ UNCHANGED fs
              ELSE LET df == PbdbRenamed(Concat(dfs)) IN
                   IF PbdbKeyError(df)
                   THEN ret' = Returned("normalize_pbdb", "KeyError") /\ UNCHANGED fs
                   ELSE FinalizeDataframe(PbdbDeriveMid(df), procDir,
                                          "pbdb_occurrences.parquet", "normalize_pbdb")

YearsPerMa == 1000000

\* x.get('geography', {}).get('coordinates', [None, None])[k] if isinstance(x, dict) else None
SiteLat(x) == IF x.kind = "dict" /\ x.s = "geography" THEN Num(x.m) ELSE None
SiteLng(x) == IF x.kind = "dict" /\ x.s = "geography" THEN Num(x.n) ELSE None

\* normalize_neotoma lines 94-101
NeotomaFlatten(df) ==
    IF "site" \in Range(df.cols)
    THEN SetColumn(SetColumn(df, "lat", LAMBDA r : SiteLat(r["site"])),
                   "lng", LAMBDA r : SiteLng(r["site"]))
    ELSE df

\* lines 116-119 on one cell: unwrap {"age": n}, coerce, convert years to Ma
NeotomaAge(x) ==
    LET inner == IF x.kind = "dict" THEN (IF x.s = "age" THEN Num(x.n) ELSE None) ELSE x
        num == ToNumeric(inner)
    IN  IF IsNull(num) THEN NaN ELSE Num(num.n \div YearsPerMa)

\* normalize_neotoma lines 103-119
NeotomaPrepared(df) ==
    LET d1 == SetColumn(Rename(NeotomaFlatten(df), neotoma_mapping),
                        "source_db", LAMBDA r : Str("Neotoma"))
    IN  IF "mid_ma" \in Range(d1.cols)
        THEN SetColumn(d1, "mid_ma", LAMBDA r : NeotomaAge(r["mid_ma"]))
        ELSE d1

NormalizeNeotoma ==
    LET files == Glob(RawDir, "neotoma_occurrences_", ".json") IN
    /\ UNCHANGED <<diversity, sqs, rates, procDir, netVars>>
    /\ IF files = {}
       THEN ret' = Returned("normalize_neotoma", "None") /\ UNCHANGED fs
       ELSE \E latest_file \in {f \in files : \A g \in files : fs[g].ctime <= fs[f].ctime} :
              IF ~fs[latest_file].ok
              THEN ret' = Returned("normalize_neotoma", "None") /\ UNCHANGED fs
              ELSE FinalizeDataframe(NeotomaPrepared(fs[latest_file].df), procDir,
                                     "neotoma_occurrences.parquet", "normalize_neotoma")

\* merge_datasets without its recursion guard
MergeSourcesUnguarded(order) == order

\* the files merge_datasets reads, out of glob's listing: if "merged" not in f
MergeSources(order) == SelectSeq(order, LAMBDA f : ~Contains(f, "merged"))

\* merge_datasets without `if not dfs: return`: pd.concat([]) raises
MergeDatasetsUnchecked ==
    LET files == Glob(procDir, "", "_occurrences.parquet") IN
    /\ UNCHANGED <<diversity, sqs, rates, procDir, netVars>>
    /\ \E order \in Orderings(files) :
          LET dfs == ReadAll(MergeSources(order)) IN
          IF dfs = <<>>
          THEN ret' = Returned("merge_datasets", "ValueError") /\ UNCHANGED fs
          ELSE /\ fs' = (Join(procDir, "merged_occurrences.parquet")
                             :> File(TRUE, 0, Concat(dfs))) @@ fs
               /\ ret' = Returned("merge_datasets",
                                  Join(procDir, "merged_occurrences.parquet"))

MergeDatasets ==
    LET files == Glob(procDir, "", "_occurrences.parquet") IN
    /\ UNCHANGED <<diversity, sqs, rates, procDir, netVars>>
    /\ \E order \in Orderings(files) :
          LET dfs == ReadAll(MergeSources(order)) IN
          IF dfs = <<>>
          THEN ret' = Returned("merge_datasets", "None") /\ UNCHANGED fs
          ELSE /\ fs' = (Join(procDir, "merged_occurrences.parquet")
                             :> File(TRUE, 0, Concat(dfs))) @@ fs
               /\ ret' = Returned("merge_datasets",
                                  Join(procDir, "merged_occurrences.parquet"))

(***************************************************************************)
(* Binning and the bin-based analyses                                      *)
(***************************************************************************)
BinWidth == 5

\* the round of a / b with ties taken upwards
RoundHalfUp(a, b) == IF 2 * (a % b) < b THEN a \div b ELSE a \div b + 1

\* the round of a / b with ties taken downwards
RoundHalfDown(a, b) == IF 2 * (a % b) <= b THEN a \div b ELSE a \div b + 1

\* numpy's round of a / b: to the nearest integer, ties to the even one
RoundHalfEven(a, b) ==
    LET q == a \div b
        r == a % b
    IN  IF 2 * r < b THEN q
        ELSE IF 2 * r > b THEN q + 1
        ELSE IF q % 2 = 0 THEN q ELSE q + 1

\* (mid_ma / 5).round() * 5 on a fixed-point number
TimeBin(n) == RoundHalfEven(n, BinWidth * Scale) * BinWidth * Scale

\* df["time_bin"] = (df["mid_ma"] / 5).round() * 5
WithTimeBin(df) == SetColumn(df, "time_bin", LAMBDA r : Num(TimeBin(r["mid_ma"].n)))

\* df.dropna(subset=["mid_ma", "genus"]) followed by the time_bin assignment
Binned(df) == WithTimeBin(DropNa(df, {"mid_ma", "genus"}))

\* df["time_bin"].unique()
TimeBins(df) == {df.rows[i]["time_bin"].n : i \in 1..Len(df.rows)}

\* df[df["time_bin"] == b]
BinRows(df, b) == SelectSeq(df.rows, LAMBDA r : r["time_bin"].n = b)

\* Series.nunique() / unique() of the genus column: the distinct non-null values
GenusSet(rows) == {rows[i]["genus"] : i \in {j \in 1..Len(rows) : ~IsNull(rows[j]["genus"])}}

\* the series with count() in place of nunique(): occurrences, not distinct genera
DiversitySeriesCount(df) ==
    LET b == Binned(df) IN [t \in TimeBins(b) |-> Len(BinRows(b, t))]

\* df.groupby("time_bin")["genus"].nunique()
DiversitySeries(df) ==
    LET b == Binned(df) IN [t \in TimeBins(b) |-> Cardinality(GenusSet(BinRows(b, t)))]

CanRead(path) == path \in DOMAIN fs /\ fs[path].ok

PlotDiversityCurve(data_path) ==
    /\ ret' = Returned("plot_diversity_curve", "None")
    /\ diversity' = IF CanRead(data_path) THEN DiversitySeries(fs[data_path].df)
                    ELSE diversity
    /\ UNCHANGED <<fs, sqs, rates, procDir, netVars>>

(***************************************************************************)
(* advanced_sota.py: calculate_rates                                       *)
(***************************************************************************)
RECURSIVE GCD(_, _)
GCD(a, b) == IF b = 0 THEN a ELSE GCD(b, a % b)

\* the float a / b, kept as the fraction in lowest terms
Ratio(a, b) == [num |-> a \div GCD(a, b), den |-> b \div GCD(a, b)]

SetMax(S) == CHOOSE x \in S : \A y \in S : y <= x

SetMin(S) == CHOOSE x \in S : \A y \in S : x <= y

\* sorted(S) without reverse=True: youngest first
RECURSIVE SortedAsc(_)
SortedAsc(S) == IF S = {} THEN <<>> ELSE <<SetMin(S)>> \o SortedAsc(S \ {SetMin(S)})

\* sorted(S, reverse=True)
RECURSIVE SortedDesc(_)
SortedDesc(S) == IF S = {} THEN <<>> ELSE <<SetMax(S)>> \o SortedDesc(S \ {SetMax(S)})

\* the loop with prev_genera accumulating every genus seen so far
RECURSIVE RatesLoopSeenBefore(_, _, _, _, _)
RatesLoopSeenBefore(df, time_bins, i, prev_genera, results) ==
    IF i > Len(time_bins) THEN results
    ELSE LET current_genera == GenusSet(BinRows(df, time_bins[i]))
             next_genera == IF i < Len(time_bins)
                            THEN GenusSet(BinRows(df, time_bins[i + 1])) ELSE {}
             total == Cardinality(current_genera)
             originations == Cardinality(current_genera \ prev_genera)
             extinctions == Cardinality(current_genera \ next_genera)
         IN  RatesLoopSeenBefore(df, time_bins, i + 1, prev_genera \cup current_genera,
                            Append(results,
                                   [time |-> time_bins[i],
                                    origination_rate |-> Ratio(originations, total),
                                    extinction_rate |-> Ratio(extinctions, total),
                                    total_genera |-> total,
                                    originations |-> originations,
                                    extinctions |-> extinctions]))

\* the loop with the extinctions counted over the union with the next bin
RECURSIVE RatesLoopUnion(_, _, _, _, _)
RatesLoopUnion(df, time_bins, i, prev_genera, results) ==
    IF i > Len(time_bins) THEN results
    ELSE LET current_genera == GenusSet(BinRows(df, time_bins[i]))
             next_genera == IF i < Len(time_bins)
                            THEN GenusSet(BinRows(df, time_bins[i + 1])) ELSE {}
             total == Cardinality(current_genera)
             originations == Cardinality(current_genera \ prev_genera)
             extinctions == Cardinality(current_genera \cup next_genera)
         IN  RatesLoopUnion(df, time_bins, i + 1, current_genera,
                            Append(results,
                                   [time |-> time_bins[i],
                                    origination_rate |-> Ratio(originations, total),
                                    extinction_rate |-> Ratio(extinctions, total),
                                    total_genera |-> total,
                                    originations |-> originations,
                                    extinctions |-> extinctions]))

\* the loop of lines 24-55 from index i on, prev_genera and results carried along
RECURSIVE RatesLoop(_, _, _, _, _)
RatesLoop(df, time_bins, i, prev_genera, results) ==
    IF i > Len(time_bins) THEN results
    ELSE LET current_genera == GenusSet(BinRows(df, time_bins[i]))
             next_genera == IF i < Len(time_bins)
                            THEN GenusSet(BinRows(df, time_bins[i + 1])) ELSE {}
             total == Cardinality(current_genera)
             originations == Cardinality(current_genera \ prev_genera)
             extinctions == Cardinality(current_genera \ next_genera)
         IN  IF total = 0 THEN RatesLoop(df, time_bins, i + 1, prev_genera, results)
             ELSE RatesLoop(df, time_bins, i + 1, current_genera,
                            Append(results,
                                   [time |-> time_bins[i],
                                    origination_rate |-> Ratio(originations, total),
                                    extinction_rate |-> Ratio(extinctions, total),
                                    total_genera |-> total,
                                    originations |-> originations,
                                    extinctions |-> extinctions]))

RECURSIVE LCMOfDens(_, _)
LCMOfDens(results, i) ==
    IF i > Len(results) THEN 1
    ELSE LET rest == LCMOfDens(results, i + 1)
             d == results[i].extinction_rate.den
         IN  (d * rest) \div GCD(d, rest)

RECURSIVE SumSeq(_)
SumSeq(s) == IF s = <<>> THEN 0 ELSE Head(s) + SumSeq(Tail(s))

\* the threshold test with >= in place of >
ReachesThreshold(results, i) ==
    LET n == Len(results)
        L == LCMOfDens(results, 1)
        a == [j \in 1..n |-> results[j].extinction_rate.num
                              * (L \div results[j].extinction_rate.den)]
        d == [j \in 1..n |-> n * a[j] - SumSeq(a)]
    IN  /\ d[i] >= 0
        /\ n * d[i] * d[i] >= 4 * SumSeq([j \in 1..n |-> d[j] * d[j]])

\* r["extinction_rate"] > np.mean(ext_rates) + 2 * np.std(ext_rates), in exact
\* arithmetic: with the rates a[j] / L and d[j] = n * a[j] - sum(a), the test is
\* d[i] > 0 and n * d[i]^2 > 2^2 * sum(d[j]^2)
ExceedsThreshold(results, i) ==
    LET n == Len(results)
        L == LCMOfDens(results, 1)
        a == [j \in 1..n |-> results[j].extinction_rate.num
                              * (L \div results[j].extinction_rate.den)]
        d == [j \in 1..n |-> n * a[j] - SumSeq(a)]
    IN  /\ d[i] > 0
        /\ n * d[i] * d[i] > 4 * SumSeq([j \in 1..n |-> d[j] * d[j]])

\* lines 57-64
WithFlags(results) ==
    [i \in 1..Len(results) |->
        [time |-> results[i].time,
         origination_rate |-> results[i].origination_rate,
         extinction_rate |-> results[i].extinction_rate,
         total_genera |-> results[i].total_genera,
         originations |-> results[i].originations,
         extinctions |-> results[i].extinctions,
         is_mass_extinction |-> ExceedsThreshold(results, i)]]

RateResults(df) ==
    LET b == Binned(df)
    IN  WithFlags(RatesLoop(b, SortedDesc(TimeBins(b)), 1, {}, <<>>))

CalculateRates(data_path) ==
    /\ UNCHANGED <<fs, diversity, sqs, procDir, netVars>>
    /\ IF CanRead(data_path)
       THEN /\ rates' = RateResults(fs[data_path].df)
            /\ ret' = Returned("calculate_rates", "results")
       ELSE /\ ret' = Returned("calculate_rates", "FileNotFoundError")
            /\ UNCHANGED rates

(***************************************************************************)
(* advanced_stats.py: calculate_sqs_diversity                              *)
(***************************************************************************)
\* bin_data["genus"].value_counts()[g]
GenusCount(rows, g) == Cardinality({i \in 1..Len(rows) : rows[i]["genus"] = g})

\* the orders of the genera S in which no count rises
RECURSIVE DescendingFrom(_, _)
DescendingFrom(counts, S) ==
    IF S = {} THEN {<<>>}
    ELSE UNION {{<<g>> \o o : o \in DescendingFrom(counts, S \ {g})} :
                   g \in {h \in S : \A k \in S : counts[h] >= counts[k]}}

\* the genera in any order, sorted or not
AnyOrders(rows) == Orderings(GenusSet(rows))

\* the orders freqs.sort_values(ascending=False) may leave the genera in
DescendingOrders(rows) ==
    DescendingFrom([g \in GenusSet(rows) |-> GenusCount(rows, g)], GenusSet(rows))

\* the loop with the quota test the wrong way round
RECURSIVE SqsLoopFlipped(_, _, _, _, _, _)
SqsLoopFlipped(counts, order, i, cum, total_occurrences, quota) ==
    IF i > Len(order) THEN i - 1
    ELSE IF (cum + counts[order[i]]) * quota.den <= quota.num * total_occurrences THEN i
    ELSE SqsLoopFlipped(counts, order, i + 1, cum + counts[order[i]], total_occurrences, quota)

\* the loop testing the quota before it counts the genus
RECURSIVE SqsLoopLate(_, _, _, _, _, _)
SqsLoopLate(counts, order, i, cum, total_occurrences, quota) ==
    IF i > Len(order) THEN i - 1
    ELSE IF (cum + counts[order[i]]) * quota.den >= quota.num * total_occurrences THEN i - 1
    ELSE SqsLoopLate(counts, order, i + 1, cum + counts[order[i]], total_occurrences, quota)

\* the loop of lines 111-117; cum counts occurrences, so cum / total >= quota
\* is cum * quota.den >= quota.num * total
RECURSIVE SqsLoop(_, _, _, _, _, _)
SqsLoop(counts, order, i, cum, total_occurrences, quota) ==
    IF i > Len(order) THEN i - 1
    ELSE IF (cum + counts[order[i]]) * quota.den >= quota.num * total_occurrences THEN i
    ELSE SqsLoop(counts, order, i + 1, cum + counts[order[i]], total_occurrences, quota)

\* the values sqs_results[bin_val] can take (no value when the bin has no occurrences)
SqsCounts(rows, quota) ==
    LET counts == [g \in GenusSet(rows) |-> GenusCount(rows, g)]
        total_occurrences == Cardinality({i \in 1..Len(rows) : ~IsNull(rows[i]["genus"])})
    IN  IF total_occurrences = 0 THEN {}
        ELSE {SqsLoop(counts, o, 1, 0, total_occurrences, quota) :
                 o \in DescendingOrders(rows)}

\* the sqs_results dictionaries a run can produce
SqsSeries(df, quota) ==
    LET b == Binned(df)
        possible == [t \in TimeBins(b) |-> SqsCounts(BinRows(b, t), quota)]
        reported == {t \in TimeBins(b) : possible[t] # {}}
    IN  {f \in [reported -> UNION {possible[t] : t \in reported}] :
            \A t \in reported : f[t] \in possible[t]}

CalculateSqsDiversity(data_path, quota) ==
    /\ ret' = Returned("calculate_sqs_diversity", "None")
    /\ IF CanRead(data_path)
       THEN \E f \in SqsSeries(fs[data_path].df, quota) : sqs' = (quota :> f) @@ sqs
       ELSE UNCHANGED sqs
    /\ UNCHANGED <<fs, diversity, rates, procDir, netVars>>

(***************************************************************************)
(* Inputs                                                                  *)
(***************************************************************************)
MaxRawRows == 1
MaxRunRows == 2

\* the subsequences of a column list
ColSubseqs(cols) == {SelectSeq(cols, LAMBDA c : c \in S) : S \in SUBSET Range(cols)}

\* the rows over the columns cols whose cell in column c is drawn from dom[c]
RECURSIVE RowSpace(_, _)
RowSpace(cols, dom) ==
    IF cols = <<>> THEN {<<>>}
    ELSE {(Head(cols) :> v) @@ r : v \in dom[Head(cols)], r \in RowSpace(Tail(cols), dom)}

\* the frames over cols with lo..hi rows
Frames(cols, dom, lo, hi) ==
    {[cols |-> cols, rows |-> rs] :
        rs \in UNION {[1..k -> RowSpace(cols, dom)] : k \in lo..hi}}

PbdbRawCols == <<"occurrence_no", "genus", "max_ma", "min_ma", "mid_ma", "collection_no">>

\* one PBDB record as read_csv returns it
PbdbCells ==
    [occurrence_no |-> {Num(1 * Scale)}, genus |-> {Str("Aus")},
     max_ma |-> {Num(10 * Scale)}, min_ma |-> {Num(5 * Scale)},
     mid_ma |-> {Num(10 * Scale)}, collection_no |-> {Num(7 * Scale)}]

NeotomaRawCols == <<"occurrenceid", "age", "site">>

\* one Neotoma record: age in years, site coordinates as [lng, lat]
NeotomaCells ==
    [occurrenceid |-> {Num(2 * Scale)},
     age |-> {Dict("age", 10 * YearsPerMa * Scale, 0)},
     site |-> {Dict("geography", 20 * Scale, 40 * Scale)}]

PbdbRawPath == Join(RawDir, "pbdb_occurrences_20240101_000000.csv")
NeotomaRawPath == Join(RawDir, "neotoma_occurrences_20240101_000000.json")

NoCall == Returned("", "None")

\* the raw directory holds at most one file per source
RawFileSystems(pbdbFrames, neotomaFrames) ==
    {p @@ n : p \in {<<>>} \cup {PbdbRawPath :> File(TRUE, 0, df) : df \in pbdbFrames},
              n \in {<<>>} \cup {NeotomaRawPath :> File(TRUE, 0, df) : df \in neotomaFrames}}

(***************************************************************************)
(* Spec: the normalize and merge commands of cli.py, in any order          *)
(***************************************************************************)
\* no component has assigned bins and no network analysis has run
NetIdle ==
    /\ bins = [component |-> "", df |-> EmptyFrame]
    /\ network = <<>>
    /\ web = <<>>
    /\ nullModel = <<>>
    /\ lib = <<>>
    /\ rng = 0
    /\ heavy = <<>>

Init ==
    /\ fs \in RawFileSystems(
                 UNION {Frames(cs, PbdbCells, 1, MaxRawRows) : cs \in ColSubseqs(PbdbRawCols)},
                 UNION {Frames(cs, NeotomaCells, 1, MaxRawRows) : cs \in ColSubseqs(NeotomaRawCols)})
    /\ ret = NoCall
    /\ diversity = <<>>
    /\ sqs = <<>>
    /\ rates = <<>>
    /\ NetIdle
    /\ procDir = "data/processed"

Next == NormalizePbdb \/ NormalizeNeotoma \/ MergeDatasets

Spec == Init /\ [][Next]_vars

(***************************************************************************)
(* SpecRun: run_normalization.py (normalize_pbdb, normalize_neotoma,       *)
(* merge_datasets), then the bin-based analyses of the merged table        *)
(***************************************************************************)
MergedPath == Join(procDir, "merged_occurrences.parquet")
PbdbTablePath == Join(procDir, "pbdb_occurrences.parquet")
NeotomaTablePath == Join(procDir, "neotoma_occurrences.parquet")

\* quota=0.5, the default of calculate_sqs_diversity
DefaultQuota == [num |-> 1, den |-> 2]

RunPbdbCells ==
    [occurrence_no |-> {Num(1 * Scale)},
     genus |-> {Str("Aus"), Str("Bus"), NaN},
     max_ma |-> {Num(10 * Scale)}, min_ma |-> {Num(5 * Scale)},
     mid_ma |-> {Num(10 * Scale), Num(11 * Scale), Num(15 * Scale), NaN},
     collection_no |-> {Num(7 * Scale)}]

RunPbdbColumns ==
    {<<"genus", "mid_ma">>, <<"mid_ma">>, <<"genus">>, <<"genus", "max_ma", "min_ma">>,
     <<"occurrence_no", "max_ma", "min_ma">>}

RunNeotomaColumns == {<<"occurrenceid", "age">>, <<"occurrenceid">>}

RunInit ==
    /\ fs \in RawFileSystems(
                 UNION {Frames(cs, RunPbdbCells, 1, MaxRunRows) : cs \in RunPbdbColumns},
                 UNION {Frames(cs, NeotomaCells, 1, 1) : cs \in RunNeotomaColumns})
    /\ ret = NoCall
    /\ diversity = <<>>
    /\ sqs = <<>>
    /\ rates = <<>>
    /\ NetIdle
    /\ procDir = "data/processed"

RunNext ==
    \/ ret.op = "" /\ NormalizePbdb
    \/ ret.op = "normalize_pbdb" /\ ret.val # "KeyError" /\ NormalizeNeotoma
    \/ ret.op = "normalize_neotoma" /\ MergeDatasets
    \/ ret.op = "merge_datasets" /\ PlotDiversityCurve(MergedPath)
    \/ ret.op = "plot_diversity_curve" /\ CalculateSqsDiversity(MergedPath, DefaultQuota)
    \/ ret.op = "calculate_sqs_diversity" /\ CalculateRates(MergedPath)

SpecRun == RunInit /\ [][RunNext]_vars

(***************************************************************************)
(* Properties of normalization and merging                                 *)
(***************************************************************************)
\* the table at path has exactly the schema's columns, in the schema's order
HasSchemaColumns(path) ==
    /\ path \in DOMAIN fs
    /\ fs[path].df.cols = SchemaKeys
    /\ \A i \in 1..Len(fs[path].df.rows) : DOMAIN fs[path].df.rows[i] = Range(SchemaKeys)

\* C1: whenever normalize_pbdb or normalize_neotoma has run on a non-empty raw
\* input, whatever columns it has, the call has written a table whose columns
\* are exactly the keys of OCCURRENCE_SCHEMA in declared order, one row per
\* raw record.
C1_NormalizedHasSchemaColumns ==
    /\ (ret.op = "normalize_pbdb" /\ PbdbRawPath \in DOMAIN fs) =>
          /\ ret.val = PbdbTablePath
          /\ HasSchemaColumns(PbdbTablePath)
          /\ Len(fs[PbdbTablePath].df.rows) = Len(fs[PbdbRawPath].df.rows)
    /\ (ret.op = "normalize_neotoma" /\ NeotomaRawPath \in DOMAIN fs) =>
          /\ ret.val = NeotomaTablePath
          /\ HasSchemaColumns(NeotomaTablePath)
          /\ Len(fs[NeotomaTablePath].df.rows) = Len(fs[NeotomaRawPath].df.rows)

\* the rows of the normalized table at tablePath whose raw record (same position
\* in the raw file) has a genus and whose mid_ma is present
RECURSIVE UsableRows(_, _, _)
UsableRows(table, raw, i) ==
    IF i > Len(table) THEN <<>>
    ELSE (IF /\ "genus" \in DOMAIN raw[i]
             /\ ~IsNull(raw[i]["genus"])
             /\ ~IsNull(table[i]["mid_ma"])
          THEN <<table[i]>> ELSE <<>>) \o UsableRows(table, raw, i + 1)

UsableOf(tablePath, rawPath) ==
    IF tablePath \in DOMAIN fs /\ rawPath \in DOMAIN fs
    THEN UsableRows(fs[tablePath].df.rows, fs[rawPath].df.rows, 1)
    ELSE <<>>

\* the merged table without the records that lack a genus or a mid_ma
UsableMerged ==
    [cols |-> SchemaKeys,
     rows |-> UsableOf(PbdbTablePath, PbdbRawPath) \o UsableOf(NeotomaTablePath, NeotomaRawPath)]

\* C2: end to end, the bin-based analyses of the merged table give what they
\* give on the records that have both a genus and a mid_ma: a raw record
\* without genus, or with a missing mid_ma, contributes to no bin of raw
\* diversity, SQS or the origination/extinction rates.
C2_UnusableRecordsExcluded ==
    (ret.op = "calculate_rates" /\ ret.val = "results") =>
        /\ diversity = DiversitySeries(UsableMerged)
        /\ sqs[DefaultQuota] \in SqsSeries(UsableMerged, DefaultQuota)
        /\ rates = RateResults(UsableMerged)

\* the multiset of rows of the merged table ("absent" before the first merge)
MergedRowBag ==
    IF MergedPath \in DOMAIN fs
    THEN LET rows == fs[MergedPath].df.rows
         IN  [r \in Range(rows) |-> Cardinality({i \in 1..Len(rows) : rows[i] = r})]
    ELSE <<"absent">>

\* C3: a merge_datasets run that directly follows a merge_datasets run (same
\* per-source tables, input_dir = output_dir) leaves the merged table's row
\* multiset as the earlier run wrote it.
C3_MergeIdempotent ==
    [][(ret.op = "merge_datasets" /\ ret'.op = "merge_datasets")
          => MergedRowBag' = MergedRowBag]_vars

\* a merge has run over both per-source tables and its output lies in the
\* directory the next merge lists
C3_Witness ==
    /\ ret.op = "merge_datasets"
    /\ {MergedPath, PbdbTablePath, NeotomaTablePath} \subseteq DOMAIN fs
    /\ MergedPath \in Glob(procDir, "", "_occurrences.parquet")
    /\ Len(fs[MergedPath].df.rows)
          = Len(fs[PbdbTablePath].df.rows) + Len(fs[NeotomaTablePath].df.rows)

(***************************************************************************)
(* SpecAnalysis: plot_diversity_curve and calculate_rates on a table       *)
(***************************************************************************)
MaxRows == 3
NumGridBins == 6

AnalysisCols == <<"mid_ma", "lat", "lng", "genus">>

Occurrence(genus, mid) ==
    [mid_ma |-> mid, lat |-> Num(0), lng |-> Num(0), genus |-> genus]

AnalysisCells ==
    [mid_ma |-> {Num(500 * Scale), Num(501 * Scale), Num(505 * Scale), NaN},
     lat |-> {Num(0)}, lng |-> {Num(0)},
     genus |-> {Str("X"), Str("Y"), None}]

GridGenera == <<"X", "Y">>

\* one occurrence per (bin, genus) of an assignment of genus sets to
\* NumGridBins consecutive bins, 505 Ma, 510 Ma, ...
RECURSIVE GridRows(_, _)
GridRows(assign, k) ==
    IF k > NumGridBins THEN <<>>
    ELSE LET present == SelectSeq(GridGenera, LAMBDA g : g \in assign[k])
         IN  [i \in 1..Len(present) |->
                 Occurrence(Str(present[i]), Num((500 + BinWidth * k) * Scale))]
             \o GridRows(assign, k + 1)

GridTables ==
    {[cols |-> AnalysisCols, rows |-> GridRows(assign, 1)] :
        assign \in [1..NumGridBins -> SUBSET Range(GridGenera)]}

\* bin A = {X, Y, Z} at 505 Ma, the next younger bin B = {Y, Z, W} at 500 Ma
RatesExample ==
    [cols |-> AnalysisCols,
     rows |-> <<Occurrence(Str("X"), Num(505 * Scale)), Occurrence(Str("Y"), Num(505 * Scale)),
                Occurrence(Str("Z"), Num(505 * Scale)), Occurrence(Str("Y"), Num(500 * Scale)),
                Occurrence(Str("Z"), Num(500 * Scale)), Occurrence(Str("W"), Num(500 * Scale))>>]

AnalysisInit ==
    /\ procDir = "data/processed"
    /\ \E table \in Frames(AnalysisCols, AnalysisCells, 0, MaxRows)
                      \cup GridTables \cup {RatesExample} :
          fs = (MergedPath :> File(TRUE, 0, table))
    /\ ret = NoCall
    /\ diversity = <<>>
    /\ sqs = <<>>
    /\ rates = <<>>
    /\ NetIdle

AnalysisNext == PlotDiversityCurve(MergedPath) \/ CalculateRates(MergedPath)

SpecAnalysis == AnalysisInit /\ [][AnalysisNext]_vars

(***************************************************************************)
(* SpecSqs: calculate_sqs_diversity on a table, at several quotas          *)
(***************************************************************************)
MaxSqsRows == 4

Quotas == {[num |-> 1, den |-> 4], [num |-> 1, den |-> 2], [num |-> 1, den |-> 1]}

SqsCells ==
    [mid_ma |-> {Num(500 * Scale), Num(505 * Scale)},
     lat |-> {Num(0)}, lng |-> {Num(0)},
     genus |-> {Str("X"), Str("Y"), Str("Z")}]

SqsInit ==
    /\ procDir = "data/processed"
    /\ \E table \in Frames(AnalysisCols, SqsCells, 0, MaxSqsRows) :
          fs = (MergedPath :> File(TRUE, 0, table))
    /\ ret = NoCall
    /\ diversity = <<>>
    /\ sqs = <<>>
    /\ rates = <<>>
    /\ NetIdle

SqsNext == \E quota \in Quotas : CalculateSqsDiversity(MergedPath, quota)

SpecSqs == SqsInit /\ [][SqsNext]_vars

(***************************************************************************)
(* Properties of the analyses, stated on the table they are given          *)
(***************************************************************************)
InputRows == fs[MergedPath].df.rows

\* t is round(n / 5) * 5: the multiple of 5 nearest to n, the even multiple on a tie
IsBinOf(t, n) ==
    LET w == BinWidth * Scale IN
    /\ t % w = 0
    /\ 2 * (n - t) <= w
    /\ 2 * (t - n) <= w
    /\ (2 * (n - t) = w \/ 2 * (t - n) = w) => (t \div w) % 2 = 0

HasBoth(r) == r["mid_ma"].kind = "num" /\ r["genus"].kind = "str"

\* the genera of the records with mid_ma and genus present whose bin is t
GeneraOfBin(t) ==
    {InputRows[i]["genus"] :
        i \in {j \in 1..Len(InputRows) :
                  HasBoth(InputRows[j]) /\ IsBinOf(t, InputRows[j]["mid_ma"].n)}}

\* the bins that hold such a record
OccupiedBins ==
    {t \in UNION {{BinWidth * Scale * (InputRows[i]["mid_ma"].n \div (BinWidth * Scale)),
                   BinWidth * Scale * (InputRows[i]["mid_ma"].n \div (BinWidth * Scale) + 1)} :
                     i \in {j \in 1..Len(InputRows) : HasBoth(InputRows[j])}} :
        GeneraOfBin(t) # {}}

\* C4: the raw diversity of a time bin is the number of distinct genera among
\* the records with mid_ma and genus present whose bin round(mid_ma/5)*5 it is,
\* and only bins holding such a record are reported.
C4_RawDiversity ==
    ret.op = "plot_diversity_curve" =>
        /\ DOMAIN diversity = OccupiedBins
        /\ \A t \in OccupiedBins : diversity[t] = Cardinality(GeneraOfBin(t))

\* two occurrences of one genus at 500 Ma and 501 Ma give diversity 1 at bin 500
C4_Witness ==
    /\ ret.op = "plot_diversity_curve"
    /\ \E i, j \in 1..Len(InputRows) :
          /\ InputRows[i]["mid_ma"] = Num(500 * Scale)
          /\ InputRows[j]["mid_ma"] = Num(501 * Scale)
          /\ InputRows[i]["genus"] = InputRows[j]["genus"]
          /\ InputRows[i]["genus"].kind = "str"
    /\ 500 * Scale \in DOMAIN diversity
    /\ diversity[500 * Scale] = 1

\* the genera of the neighbour at index i of the rate series (none outside it)
SeriesGenera(i) == IF i \in 1..Len(rates) THEN GeneraOfBin(rates[i].time) ELSE {}

\* C5: the rate series lists the occupied bins oldest first; in each record
\* originations counts the bin's genera absent from the series' next older bin,
\* extinctions those absent from its next younger bin, total_genera the bin's
\* genera, and each rate is its count divided by total_genera.
C5_RateCounts ==
    ret.op = "calculate_rates" =>
        /\ {rates[i].time : i \in 1..Len(rates)} = OccupiedBins
        /\ \A i \in 1..Len(rates) :
              /\ i < Len(rates) => rates[i].time > rates[i + 1].time
              /\ rates[i].total_genera = Cardinality(SeriesGenera(i))
              /\ rates[i].originations = Cardinality(SeriesGenera(i) \ SeriesGenera(i - 1))
              /\ rates[i].extinctions = Cardinality(SeriesGenera(i) \ SeriesGenera(i + 1))
              /\ rates[i].origination_rate.num * rates[i].total_genera
                    = rates[i].originations * rates[i].origination_rate.den
              /\ rates[i].extinction_rate.num * rates[i].total_genera
                    = rates[i].extinctions * rates[i].extinction_rate.den

\* bin A = {X, Y, Z}, next younger bin B = {Y, Z, W}: extinctions(A) = 1, rate 1/3
C5_Witness ==
    /\ ret.op = "calculate_rates"
    /\ fs[MergedPath].df = RatesExample
    /\ Len(rates) = 2
    /\ rates[1].extinctions = 1
    /\ rates[1].extinction_rate = [num |-> 1, den |-> 3]

\* C6: every rate record has total_genera >= 1, originations and extinctions
\* between 0 and total_genera, and both rates in [0, 1].
C6_RateBounds ==
    \A i \in 1..Len(rates) :
        /\ rates[i].total_genera >= 1
        /\ 0 <= rates[i].originations /\ rates[i].originations <= rates[i].total_genera
        /\ 0 <= rates[i].extinctions /\ rates[i].extinctions <= rates[i].total_genera
        /\ rates[i].origination_rate.den > 0 /\ rates[i].extinction_rate.den > 0
        /\ 0 <= rates[i].origination_rate.num
        /\ rates[i].origination_rate.num <= rates[i].origination_rate.den
        /\ 0 <= rates[i].extinction_rate.num
        /\ rates[i].extinction_rate.num <= rates[i].extinction_rate.den

\* a record with both counts strictly between 0 and its total
C6_Witness ==
    \E i \in 1..Len(rates) :
        /\ 0 < rates[i].originations /\ rates[i].originations < rates[i].total_genera
        /\ 0 < rates[i].extinctions /\ rates[i].extinctions < rates[i].total_genera

One == [num |-> 1, den |-> 1]

\* C7: the record of the oldest bin (largest time) has origination rate 1.0 and
\* the record of the youngest bin (smallest time) has extinction rate 1.0; in a
\* single-bin series that one record has both.
C7_EndBins ==
    \A i \in 1..Len(rates) :
        /\ (\A j \in 1..Len(rates) : rates[j].time <= rates[i].time)
              => rates[i].origination_rate = One
        /\ (\A j \in 1..Len(rates) : rates[j].time >= rates[i].time)
              => rates[i].extinction_rate = One

\* a series in which not every bin has these rates: the end bins are what is special
C7_Witness ==
    /\ Len(rates) >= 2
    /\ rates[1].extinction_rate # One
    /\ rates[Len(rates)].origination_rate # One

RECURSIVE DenProduct(_)
DenProduct(i) ==
    IF i > Len(rates) THEN 1 ELSE rates[i].extinction_rate.den * DenProduct(i + 1)

\* the extinction rate of record i over the common denominator DenProduct(1)
ScaledRate(i) ==
    rates[i].extinction_rate.num * (DenProduct(1) \div rates[i].extinction_rate.den)

\* x[i] > mean(x) + 2 * sqrt(mean(x^2) - mean(x)^2), cleared of roots and fractions
AboveTwoSigma(i) ==
    LET n == Len(rates)
        S == SumSeq([j \in 1..n |-> ScaledRate(j)])
        Q == SumSeq([j \in 1..n |-> ScaledRate(j) * ScaledRate(j)])
        D == n * ScaledRate(i) - S
    IN  D > 0 /\ D * D > 4 * (n * Q - S * S)

\* C8: is_mass_extinction is true exactly when the record's extinction rate is
\* strictly greater than the mean plus two population standard deviations of
\* the extinction rates of all records of the series.
C8_MassExtinctionFlag ==
    \A i \in 1..Len(rates) : rates[i].is_mass_extinction <=> AboveTwoSigma(i)

\* a flagged bin
C8_Witness == \E i \in 1..Len(rates) : rates[i].is_mass_extinction

QuotaLeq(q1, q2) == q1.num * q2.den <= q2.num * q1.den

\* C9: for the same table, the SQS count of a bin at quota q1 is at most its
\* count at any quota q2 >= q1.
C9_SqsMonotone ==
    \A q1, q2 \in DOMAIN sqs :
        QuotaLeq(q1, q2) =>
            \A t \in DOMAIN sqs[q1] : t \in DOMAIN sqs[q2] /\ sqs[q1][t] <= sqs[q2][t]

\* two runs whose counts differ in a bin
C9_Witness ==
    \E q1, q2 \in DOMAIN sqs :
        /\ QuotaLeq(q1, q2)
        /\ \E t \in DOMAIN sqs[q1] : sqs[q1][t] < sqs[q2][t]

\* C10: every occupied bin is reported with a count between 1 and its number
\* of distinct genera, and at quota 1.0 with exactly that number.
C10_SqsFullQuota ==
    \A q \in DOMAIN sqs :
        /\ DOMAIN sqs[q] = OccupiedBins
        /\ \A t \in OccupiedBins :
              /\ 1 <= sqs[q][t]
              /\ sqs[q][t] <= Cardinality(GeneraOfBin(t))
              /\ q.num = q.den => sqs[q][t] = Cardinality(GeneraOfBin(t))

\* a bin of three genera counted in full at quota 1.0 and in part at quota 0.5
C10_Witness ==
    /\ {[num |-> 1, den |-> 1], DefaultQuota} \subseteq DOMAIN sqs
    /\ \E t \in OccupiedBins :
          /\ Cardinality(GeneraOfBin(t)) = 3
          /\ sqs[[num |-> 1, den |-> 1]][t] = 3
          /\ sqs[DefaultQuota][t] < 3

(***************************************************************************)
(* SpecAges: normalize_pbdb on one raw file whose age columns vary         *)
(***************************************************************************)
MaxAgeRows == 2

AgeCols == <<"genus", "max_ma", "min_ma", "mid_ma">>

\* age cells as read_csv returns them: floats, or strings in a column that
\* holds an entry that is no number, or an empty cell
AgeCells ==
    [genus |-> {Str("Aus")},
     max_ma |-> {Num(10 * Scale), Str("10"), Str("abc"), NaN},
     min_ma |-> {Num(5 * Scale), Str("5"), Str("abc")},
     mid_ma |-> {Num(10 * Scale)}]

AgesInit ==
    /\ procDir = "data/processed"
    /\ \E cs \in ColSubseqs(AgeCols) : \E df \in Frames(cs, AgeCells, 1, MaxAgeRows) :
          fs = (PbdbRawPath :> File(TRUE, 0, df))
    /\ ret = NoCall
    /\ diversity = <<>>
    /\ sqs = <<>>
    /\ rates = <<>>
    /\ NetIdle

AgesNext == NormalizePbdb

SpecAges == AgesInit /\ [][AgesNext]_vars

RawPbdb == fs[PbdbRawPath].df

Normalized(path) == fs[path].df

\* the cell is present and pd.to_numeric reads a number from it
Parsable(r, c) == c \in DOMAIN r /\ ToNumeric(r[c]).kind = "num"

\* the cell is present and pd.to_numeric reads no number from it
Unparsable(r, c) == c \in DOMAIN r /\ ToNumeric(r[c]).kind # "num"

\* C14: when the PBDB input has no mid_ma column, a normalized record with
\* parsable max_ma >= min_ma has mid_ma = (max_ma + min_ma) / 2 exactly, and a
\* record whose max_ma or min_ma is unparsable is normalized with a missing
\* mid_ma, without an error.
C14_MidpointDerived ==
    (ret.op = "normalize_pbdb" /\ "mid_ma" \notin Range(RawPbdb.cols)) =>
        \A i \in 1..Len(RawPbdb.rows) :
            LET raw == RawPbdb.rows[i] IN
            /\ (/\ PbdbTablePath \in DOMAIN fs
                /\ Parsable(raw, "max_ma") /\ Parsable(raw, "min_ma")
                /\ ToNumeric(raw["max_ma"]).n >= ToNumeric(raw["min_ma"]).n)
                  => LET row == Normalized(PbdbTablePath).rows[i] IN
                     /\ row["mid_ma"].kind = "num"
                     /\ 2 * row["mid_ma"].n
                           = ToNumeric(raw["max_ma"]).n + ToNumeric(raw["min_ma"]).n
            /\ (Unparsable(raw, "max_ma") \/ Unparsable(raw, "min_ma"))
                  => /\ ret.val # "KeyError"
                     /\ PbdbTablePath \in DOMAIN fs
                     /\ Normalized(PbdbTablePath).rows[i]["mid_ma"] = NaN

(***************************************************************************)
(* SpecFiles: normalize and merge over raw directories in which files are  *)
(* missing or cannot be read                                               *)
(***************************************************************************)
MaxFileRows == 2

FileCols == <<"occurrence_no", "genus", "max_ma", "min_ma">>

\* a raw PBDB frame of k records of one genus
PbdbFileFrame(genus, k) ==
    [cols |-> FileCols,
     rows |-> [i \in 1..k |-> [occurrence_no |-> Num(i * Scale), genus |-> Str(genus),
                               max_ma |-> Num(10 * Scale), min_ma |-> Num(5 * Scale)]]]

Unreadable(ctime) == File(FALSE, ctime, EmptyFrame)

\* a path of the raw directory is absent, unreadable or holds one of the frames
RawChoices(path, ctime, frames) ==
    {<<>>, path :> Unreadable(ctime)} \cup {path :> File(TRUE, ctime, df) : df \in frames}

PbdbRawPath2 == Join(RawDir, "pbdb_occurrences_20240202_000000.csv")
NeotomaRawPath2 == Join(RawDir, "neotoma_occurrences_20240202_000000.json")

NeotomaFileFrames == Frames(NeotomaRawCols, NeotomaCells, 1, 1)

FilesInit ==
    /\ procDir = "data/processed"
    /\ \E a \in RawChoices(PbdbRawPath, 1,
                           {PbdbFileFrame("Aus", k) : k \in 1..MaxFileRows}),
          b \in RawChoices(PbdbRawPath2, 2,
                           {PbdbFileFrame("Bus", k) : k \in 1..MaxFileRows}),
          c \in RawChoices(NeotomaRawPath, 1, NeotomaFileFrames),
          d \in RawChoices(NeotomaRawPath2, 2, NeotomaFileFrames) :
          fs = a @@ b @@ c @@ d
    /\ ret = NoCall
    /\ diversity = <<>>
    /\ sqs = <<>>
    /\ rates = <<>>
    /\ NetIdle

FilesNext == NormalizePbdb \/ NormalizeNeotoma \/ MergeDatasets

SpecFiles == FilesInit /\ [][FilesNext]_vars

(***************************************************************************)
(* SpecDirs: the normalizers and merge_datasets given a processed          *)
(* directory of either name                                                *)
(***************************************************************************)
ProcessedDirs == {"data/processed", "data/merged"}

DirsInit ==
    /\ procDir \in ProcessedDirs
    /\ \E a \in RawChoices(PbdbRawPath, 1,
                           {PbdbFileFrame("Aus", k) : k \in 1..MaxFileRows}),
          c \in RawChoices(NeotomaRawPath, 1, NeotomaFileFrames) :
          fs = a @@ c
    /\ ret = NoCall
    /\ diversity = <<>>
    /\ sqs = <<>>
    /\ rates = <<>>
    /\ NetIdle

DirsNext == NormalizePbdb \/ NormalizeNeotoma \/ MergeDatasets

SpecDirs == DirsInit /\ [][DirsNext]_vars

PbdbRawFiles == {PbdbRawPath, PbdbRawPath2} \cap DOMAIN fs

NeotomaRawFiles == {NeotomaRawPath, NeotomaRawPath2} \cap DOMAIN fs

SourceTables == {PbdbTablePath, NeotomaTablePath} \cap DOMAIN fs

(***************************************************************************)
(* SpecReruns: the normalizers and merge_datasets run again and again      *)
(* while raw files are removed or become unreadable between the runs       *)
(***************************************************************************)
\* between two runs a raw file is deleted, or can no longer be read
RawLost ==
    /\ \E p \in PbdbRawFiles \cup NeotomaRawFiles :
          \/ fs' = Without(fs, p)
          \/ fs' = (p :> Unreadable(fs[p].ctime)) @@ fs
    /\ UNCHANGED <<ret, diversity, sqs, rates, procDir, netVars>>

RerunsNext == NormalizePbdb \/ NormalizeNeotoma \/ MergeDatasets \/ RawLost

SpecReruns == FilesInit /\ [][RerunsNext]_vars

\* C18: with no matching raw file normalize_pbdb and normalize_neotoma return
\* None and write nothing, and with no per-source table in the directory
\* merge_datasets returns and writes nothing; none of them raises.
C18_MissingInputNonFatal ==
    [][/\ (ret'.op = "normalize_pbdb" /\ PbdbRawFiles = {})
             => (ret'.val = "None" /\ fs' = fs)
       /\ (ret'.op = "normalize_neotoma" /\ NeotomaRawFiles = {})
             => (ret'.val = "None" /\ fs' = fs)
       /\ (ret'.op = "merge_datasets" /\ SourceTables = {})
             => (ret'.val = "None" /\ fs' = fs)]_vars

\* merge_datasets has returned over a directory without per-source tables,
\* the raw directory holding no file for either normalizer
C18_Witness ==
    /\ ret = Returned("merge_datasets", "None")
    /\ PbdbRawFiles = {} /\ NeotomaRawFiles = {}
    /\ SourceTables = {}
    /\ MergedPath \notin DOMAIN fs

ReadablePbdb == {f \in PbdbRawFiles : fs[f].ok}

\* how many records of the genus a frame holds
GenusRows(df, genus) ==
    Cardinality({i \in 1..Len(df.rows) : df.rows[i]["genus"] = Str(genus)})

\* the records of the genus in the files of S together
RECURSIVE GenusRowsOfFiles(_, _)
GenusRowsOfFiles(S, genus) ==
    IF S = {} THEN 0
    ELSE LET f == CHOOSE g \in S : TRUE
         IN  GenusRows(fs[f].df, genus) + GenusRowsOfFiles(S \ {f}, genus)

\* C19: after normalize_pbdb over several raw files the normalized table
\* holds exactly the records of the files that could be read, and the result
\* is absent exactly when no file could be read.
C19_UnreadableFileSkipped ==
    ret.op = "normalize_pbdb" =>
        /\ ret.val = "None" <=> ReadablePbdb = {}
        /\ ReadablePbdb # {} =>
              /\ ret.val = PbdbTablePath
              /\ PbdbTablePath \in DOMAIN fs
              /\ Len(Normalized(PbdbTablePath).rows)
                    = GenusRowsOfFiles(ReadablePbdb, "Aus")
                        + GenusRowsOfFiles(ReadablePbdb, "Bus")
              /\ \A genus \in {"Aus", "Bus"} :
                    GenusRows(Normalized(PbdbTablePath), genus)
                        = GenusRowsOfFiles(ReadablePbdb, genus)

\* one of two raw files could not be read and the table holds the other's records
C19_Witness ==
    /\ ret = Returned("normalize_pbdb", PbdbTablePath)
    /\ PbdbRawFiles = {PbdbRawPath, PbdbRawPath2}
    /\ ~fs[PbdbRawPath].ok /\ fs[PbdbRawPath2].ok
    /\ Len(Normalized(PbdbTablePath).rows) = Len(fs[PbdbRawPath2].df.rows)
    /\ GenusRows(Normalized(PbdbTablePath), "Bus") = MaxFileRows

(***************************************************************************)
(* The binning lines of every component that bins: each component filters  *)
(* the table it read and assigns its own bin columns                       *)
(***************************************************************************)
\* (x / w).round() without the multiplication back: the index of the bin
RoundToIndex(n, w) == RoundHalfEven(n, w * Scale) * Scale

\* (x / w).round() * w on a fixed-point number
RoundTo(n, w) == RoundHalfEven(n, w * Scale) * w * Scale

\* df[dst] = (df[src] / w).round() * w
WithRounded(df, dst, src, w) == SetColumn(df, dst, LAMBDA r : Num(RoundTo(r[src].n, w)))

\* a (lat_bin, lng_bin) tuple as a cell
Pair(n, m) == [kind |-> "pair", n |-> n, m |-> m, s |-> ""]

\* df["locality"] = list(zip(df["lat_bin"], df["lng_bin"]))
WithLocality(df) ==
    SetColumn(df, "locality", LAMBDA r : Pair(r["lat_bin"].n, r["lng_bin"].n))

\* advanced_stats.py lines 23-28
PlotNetworkBinned(df) ==
    WithLocality(WithRounded(WithRounded(DropNa(df, {"lat", "lng", "genus"}),
                                         "lat_bin", "lat", 5), "lng_bin", "lng", 5))

\* advanced_stats.py lines 86-87
SqsBinned(df) == WithRounded(DropNa(df, {"mid_ma", "genus"}), "time_bin", "mid_ma", 5)

\* sota_stats.py lines 26-34
DynamicsBinned(df) ==
    LET d0 == DropNa(df, {"mid_ma", "lat", "lng", "genus"})
        d1 == WithRounded(d0, "time_bin", "mid_ma", 5)
        d2 == WithRounded(d1, "lat_bin", "lat", 5)
        d3 == WithRounded(d2, "lng_bin", "lng", 5)
    IN  WithLocality(d3)

\* advanced_sota.py lines 16-17
RatesBinned(df) == WithRounded(DropNa(df, {"mid_ma", "genus"}), "time_bin", "mid_ma", 5)

\* advanced_sota.py lines 81-82
ClimateBinned(df) == WithRounded(DropNa(df, {"mid_ma", "genus"}), "time_bin", "mid_ma", 5)

\* advanced_sota.py lines 160-164
NullModelBinned(df) ==
    LET d0 == DropNa(df, {"mid_ma", "genus", "lat", "lng"})
        d1 == WithRounded(d0, "time_bin", "mid_ma", 5)
        d2 == WithRounded(d1, "lat_bin", "lat", 5)
        d3 == WithRounded(d2, "lng_bin", "lng", 5)
    IN  WithLocality(d3)

\* export_web_data.py lines 23-24
ExportBinned(df) ==
    WithRounded(DropNa(df, {"mid_ma", "genus", "lat", "lng"}), "time_bin", "mid_ma", 5)

\* export_web_data.py lines 74-76, on df_heavy
ExportLocalities(df_heavy) ==
    WithLocality(WithRounded(WithRounded(df_heavy, "lat_bin", "lat", 5), "lng_bin", "lng", 5))

\* ml_extinction.py lines 33-39
MlBinned(df) ==
    LET d0 == DropNa(df, {"mid_ma", "genus", "lat", "lng"})
        d1 == WithRounded(d0, "time_bin", "mid_ma", 5)
    IN  SetColumn(d1, "locality",
                  LAMBDA r : Pair(RoundTo(r["lat"].n, 5), RoundTo(r["lng"].n, 5)))

\* kids.py lines 13-14
KidsBinned(df) == WithRounded(DropNa(df, {"mid_ma", "genus"}), "time_bin", "mid_ma", 5)

\* kids.py lines 58-60: the frame df_geo of the geographic-spread grouping
KidsGeo(df) ==
    WithRounded(WithRounded(DropNa(KidsBinned(df), {"lat", "lng"}),
                            "lat_bin", "lat", 10), "lng_bin", "lng", 10)

dino_terms == {"Saurischia", "Ornithischia", "Dinosauria"}

\* Series.isin(dino_terms) on one cell
IsDino(v) == v.kind = "str" /\ v.s \in dino_terms

\* taxonomy.py lines 73-81 and 91
TaxonomyBinned(df) ==
    LET dinos == [cols |-> df.cols,
                  rows |-> SelectSeq(df.rows, LAMBDA r : \/ IsDino(r["class"])
                                                         \/ IsDino(r["order"])
                                                         \/ IsDino(r["phylum"]))]
        numeric == SetColumn(dinos, "mid_ma", LAMBDA r : ToNumeric(r["mid_ma"]))
    IN  WithRounded(DropNa(numeric, {"mid_ma"}), "time_bin", "mid_ma", 5)

\* a component has read the table and reached the end of its binning lines
AssignBins(component, df) ==
    /\ bins' = [component |-> component, df |-> df]
    /\ UNCHANGED <<fs, ret, diversity, sqs, rates, procDir, network, web, nullModel, lib,
                   rng, heavy>>

BinsOfPlotDiversityCurve(data_path) ==
    CanRead(data_path) /\ AssignBins("plot_diversity_curve", Binned(fs[data_path].df))

BinsOfPlotBiogeographicNetwork(data_path) ==
    /\ CanRead(data_path)
    /\ AssignBins("plot_biogeographic_network", PlotNetworkBinned(fs[data_path].df))

BinsOfCalculateSqsDiversity(data_path) ==
    CanRead(data_path) /\ AssignBins("calculate_sqs_diversity", SqsBinned(fs[data_path].df))

BinsOfAnalyzeBiogeographicDynamics(data_path) ==
    /\ CanRead(data_path)
    /\ AssignBins("analyze_biogeographic_dynamics", DynamicsBinned(fs[data_path].df))

BinsOfCalculateRates(data_path) ==
    CanRead(data_path) /\ AssignBins("calculate_rates", RatesBinned(fs[data_path].df))

BinsOfCalculateClimateCorrelation(data_path) ==
    /\ CanRead(data_path)
    /\ AssignBins("calculate_climate_correlation", ClimateBinned(fs[data_path].df))

BinsOfCalculateNullModel(data_path) ==
    CanRead(data_path) /\ AssignBins("calculate_null_model", NullModelBinned(fs[data_path].df))

BinsOfExportDashboardData(data_path) ==
    /\ CanRead(data_path)
    /\ AssignBins("export_dashboard_data", ExportLocalities(ExportBinned(fs[data_path].df)))

BinsOfRunMlExtinctionAnalysis(data_path) ==
    CanRead(data_path) /\ AssignBins("run_ml_extinction_analysis", MlBinned(fs[data_path].df))

BinsOfGenerateKidsData(data_path) ==
    CanRead(data_path) /\ AssignBins("generate_kids_data", KidsGeo(fs[data_path].df))

BinsOfGenerateTaxonomyData(data_path) ==
    CanRead(data_path) /\ AssignBins("generate_taxonomy_data", TaxonomyBinned(fs[data_path].df))

(***************************************************************************)
(* Tables for the binning lines: ages on and off the bin boundaries,       *)
(* coordinates on both sides of zero, missing values                       *)
(***************************************************************************)
MaxBinRows == 2

BinningCols == <<"mid_ma", "lat", "lng", "genus", "class", "order", "phylum">>

BinningAges ==
    {Num(2 * Scale), Num(10), Num(30), Num(50), Num(10 * Scale), Num(12 * Scale), NaN}

\* (lat, lng) in degrees; the last has no coordinates
BinningPlaces ==
    {<<Num(37 * Scale), Num(-122 * Scale)>>, <<Num(35 * Scale), Num(-120 * Scale)>>,
     <<Num(40 * Scale), Num(-120 * Scale)>>, <<NaN, NaN>>}

BinningRow(mid, place, genus) ==
    [mid_ma |-> mid, lat |-> place[1], lng |-> place[2], genus |-> genus,
     class |-> Str("Saurischia"), order |-> Str("nan"), phylum |-> Str("Chordata")]

BinningRows ==
    {BinningRow(mid, place, Str("Aus")) : mid \in BinningAges, place \in BinningPlaces}
        \cup {BinningRow(Num(12 * Scale), <<Num(37 * Scale), Num(-122 * Scale)>>, None)}

BinningTables ==
    {[cols |-> BinningCols, rows |-> rows] :
        rows \in UNION {[1..n -> BinningRows] : n \in 1..MaxBinRows}}

BinningInit ==
    /\ procDir = "data/processed"
    /\ \E table \in BinningTables : fs = (MergedPath :> File(TRUE, 0, table))
    /\ ret = NoCall
    /\ diversity = <<>>
    /\ sqs = <<>>
    /\ rates = <<>>
    /\ NetIdle

BinningNext ==
    \/ BinsOfPlotDiversityCurve(MergedPath)
    \/ BinsOfPlotBiogeographicNetwork(MergedPath)
    \/ BinsOfCalculateSqsDiversity(MergedPath)
    \/ BinsOfAnalyzeBiogeographicDynamics(MergedPath)
    \/ BinsOfCalculateRates(MergedPath)
    \/ BinsOfCalculateClimateCorrelation(MergedPath)
    \/ BinsOfCalculateNullModel(MergedPath)
    \/ BinsOfExportDashboardData(MergedPath)
    \/ BinsOfRunMlExtinctionAnalysis(MergedPath)
    \/ BinsOfGenerateKidsData(MergedPath)
    \/ BinsOfGenerateTaxonomyData(MergedPath)

SpecBinning == BinningInit /\ [][BinningNext]_vars

BinnedRows == bins.df.rows

HasTimeBin == "time_bin" \in Range(bins.df.cols)

HasPlace == Range(bins.df.cols) \cap {"locality", "lat_bin"} # {}

\* the latitude and longitude bins a component gave a row
LatBinOf(r) == IF "locality" \in DOMAIN r THEN r["locality"].n ELSE r["lat_bin"].n
LngBinOf(r) == IF "locality" \in DOMAIN r THEN r["locality"].m ELSE r["lng_bin"].n

\* C11: binning is idempotent: whenever the age of a record is itself a bin
\* some record of the same table was assigned, the record's bin is its age;
\* the same for the latitude and for the longitude of a locality bin.
C11_BinningIdempotent ==
    \A i, j \in 1..Len(BinnedRows) :
        /\ (HasTimeBin /\ BinnedRows[j]["mid_ma"].n = BinnedRows[i]["time_bin"].n)
              => BinnedRows[j]["time_bin"].n = BinnedRows[j]["mid_ma"].n
        /\ (HasPlace /\ BinnedRows[j]["lat"].n = LatBinOf(BinnedRows[i]))
              => LatBinOf(BinnedRows[j]) = BinnedRows[j]["lat"].n
        /\ (HasPlace /\ BinnedRows[j]["lng"].n = LngBinOf(BinnedRows[i]))
              => LngBinOf(BinnedRows[j]) = BinnedRows[j]["lng"].n

\* a record at 12 Ma, (37, -122) was binned to 10 Ma, (35, -120), and the
\* record at 10 Ma, (35, -120) next to it kept its age and coordinates
C11_Witness ==
    /\ bins.component = "analyze_biogeographic_dynamics"
    /\ Len(BinnedRows) = 2
    /\ BinnedRows[1]["mid_ma"] = Num(12 * Scale) /\ BinnedRows[1]["lat"] = Num(37 * Scale)
    /\ BinnedRows[2]["mid_ma"] = Num(10 * Scale) /\ BinnedRows[2]["lat"] = Num(35 * Scale)
    /\ BinnedRows[2]["time_bin"] = BinnedRows[1]["time_bin"]
    /\ BinnedRows[2]["locality"] = BinnedRows[1]["locality"]
    /\ BinnedRows[2]["locality"] = Pair(35 * Scale, -120 * Scale)

C13_SameLocalityBin ==
    HasPlace =>
        \A i \in 1..Len(BinnedRows) :
            /\ IsBinOf(LatBinOf(BinnedRows[i]), BinnedRows[i]["lat"].n)
            /\ IsBinOf(LngBinOf(BinnedRows[i]), BinnedRows[i]["lng"].n)

(***************************************************************************)
(* The network engine: sota_stats.py, export_web_data.py and               *)
(* calculate_null_model of advanced_sota.py.  The bipartite graph and its  *)
(* projection are built as the code builds them; what networkx answers for *)
(* a projected graph (communities and their modularity, or an exception)   *)
(* is left open.                                                           *)
(***************************************************************************)
MinOccurrences == 100
MinNodes == 5
ExportMinOccurrences == 50
ExportMinNodes == 5
HeavySampleSize == 20000
NullMinNodes == 10

\* a modularity as a fraction, or the marker written in its place
Modularity(num, den) == [kind |-> "num", num |-> num, den |-> den]
NanModularity == [kind |-> "nan", num |-> 0, den |-> 1]
NoneModularity == [kind |-> "none", num |-> 0, den |-> 1]

\* what the library can answer: it raises, or it returns a modularity
Raised == [raised |-> TRUE, modularity |-> NanModularity]
Answered(num, den) == [raised |-> FALSE, modularity |-> Modularity(num, den)]
GraphOutcomes == {Raised, Answered(0, 1), Answered(1, 2)}

\* group["locality"].unique()
LocalitySet(rows) == {rows[i]["locality"] : i \in 1..Len(rows)}

\* G.add_edges_from(zip(group["locality"], group["genus"])): a simple graph
BipartiteEdges(rows) == {<<rows[i]["locality"], rows[i]["genus"]>> : i \in 1..Len(rows)}

\* the projection joining every two localities, shared genus or not
ProjectedGraphComplete(edges, locality_nodes) ==
    [nodes |-> locality_nodes,
     edges |-> {e \in SUBSET locality_nodes : Cardinality(e) = 2}]

\* nx.bipartite.projected_graph(G, locality_nodes)
ProjectedGraph(edges, locality_nodes) ==
    [nodes |-> locality_nodes,
     edges |-> {{a, b} : a \in locality_nodes, b \in locality_nodes} \cap
               {e \in SUBSET locality_nodes :
                   /\ Cardinality(e) = 2
                   /\ \E g \in {edge[2] : edge \in edges} :
                         \A a \in e : <<a, g>> \in edges}]

AbsNum(n) == IF n < 0 THEN -n ELSE n

\* group["lat"].abs().sum(), in fixed-point units: each absolute latitude
\* times the number of rows that have it
SumAbsLatOf(rows) ==
    LET values == SortedAsc({AbsNum(rows[i]["lat"].n) : i \in 1..Len(rows)})
    IN  SumSeq([k \in 1..Len(values) |->
                   values[k] * Cardinality({i \in 1..Len(rows) :
                                               AbsNum(rows[i]["lat"].n) = values[k]})])

\* group["lat"].abs().mean(), in fixed-point units
MeanAbsLat(rows) == Ratio(SumAbsLatOf(rows), Len(rows))

\* the minimum-occurrence test with the bound itself excluded
TooFewAtBound(size, min_occurrences) == size <= min_occurrences

\* len(group) < min_occurrences
TooFew(size, min_occurrences) == size < min_occurrences

\* what the loops read of one group of df.groupby("time_bin")
GroupOf(group) ==
    [size |-> Len(group),
     localities |-> LocalitySet(group),
     genera |-> GenusSet(group),
     edges |-> BipartiteEdges(group),
     mean_abs_lat |-> MeanAbsLat(group)]

\* the groups of df.groupby("time_bin") from the i-th time bin on
RECURSIVE GroupsFrom(_, _, _)
GroupsFrom(df, times, i) ==
    IF i > Len(times) THEN <<>>
    ELSE (times[i] :> GroupOf(BinRows(df, times[i]))) @@ GroupsFrom(df, times, i + 1)

\* df.groupby("time_bin"): time bin -> what the loops read of its group
Groups(df) == GroupsFrom(df, SortedAsc(TimeBins(df)), 1)

\* the time bins whose group passes both `continue` tests: the bins the
\* library is called for
EligibleBins(groups, min_occurrences, min_nodes) ==
    {t \in DOMAIN groups :
        /\ ~TooFew(groups[t].size, min_occurrences)
        /\ ~(Cardinality(groups[t].localities) < min_nodes
                \/ Cardinality(groups[t].genera) < min_nodes)}

\* the bipartite graph built and the projected graph the library is given,
\* bin by bin
Projections(groups, eligible) ==
    [t \in eligible |->
        [bipartite |-> groups[t].edges,
         graph |-> ProjectedGraph(groups[t].edges, groups[t].localities)]]

\* what the library was given and what it answered, bin by bin
Consulted(graphs, outcome) ==
    [t \in DOMAIN graphs |->
        [bipartite |-> graphs[t].bipartite,
         graph |-> graphs[t].graph,
         raised |-> outcome[t].raised,
         modularity |-> outcome[t].modularity]]

\* the loop of sota_stats.py with the exception of a bin ending the loop
RECURSIVE DynamicsLoopAborting(_, _, _, _, _)
DynamicsLoopAborting(groups, order, i, outcome, results) ==
    IF i > Len(order) THEN results
    ELSE LET group == groups[order[i]] IN
         IF TooFew(group.size, MinOccurrences)
         THEN DynamicsLoopAborting(groups, order, i + 1, outcome, results)
         ELSE IF \/ Cardinality(group.localities) < MinNodes
                 \/ Cardinality(group.genera) < MinNodes
         THEN DynamicsLoopAborting(groups, order, i + 1, outcome, results)
         ELSE IF outcome[order[i]].raised THEN results
         ELSE DynamicsLoopAborting(groups, order, i + 1, outcome,
                  Append(results,
                         [time_bin |-> order[i],
                          modularity |-> outcome[order[i]].modularity,
                          mean_abs_lat |-> group.mean_abs_lat,
                          diversity |-> Cardinality(group.genera)]))

\* sota_stats.py lines 42-85 over the groups in groupby order
RECURSIVE DynamicsLoop(_, _, _, _, _)
DynamicsLoop(groups, order, i, outcome, results) ==
    IF i > Len(order) THEN results
    ELSE LET group == groups[order[i]]
             modularity == IF outcome[order[i]].raised THEN NanModularity
                           ELSE outcome[order[i]].modularity
         IN  IF TooFew(group.size, MinOccurrences)
             THEN DynamicsLoop(groups, order, i + 1, outcome, results)
             ELSE IF \/ Cardinality(group.localities) < MinNodes
                     \/ Cardinality(group.genera) < MinNodes
             THEN DynamicsLoop(groups, order, i + 1, outcome, results)
             ELSE DynamicsLoop(groups, order, i + 1, outcome,
                      Append(results,
                             [time_bin |-> order[i],
                              modularity |-> modularity,
                              mean_abs_lat |-> group.mean_abs_lat,
                              diversity |-> Cardinality(group.genera)]))

\* results_df.sort_values("time_bin", ascending=False), and the
\* sort(key=time, reverse=True) of export_web_data.py
ByTimeDescending(results, key) ==
    LET times == SortedDesc({results[i][key] : i \in 1..Len(results)})
    IN  [k \in 1..Len(times) |->
            results[CHOOSE i \in 1..Len(results) : results[i][key] = times[k]]]

AnalyzeBiogeographicDynamics(data_path) ==
    /\ UNCHANGED <<fs, diversity, sqs, rates, procDir, bins, web, nullModel, rng, heavy>>
    /\ IF ~CanRead(data_path)
       THEN /\ ret' = Returned("analyze_biogeographic_dynamics", "None")
            /\ UNCHANGED <<network, lib>>
       ELSE \E groups \in {Groups(DynamicsBinned(fs[data_path].df))} :
            \E graphs \in {Projections(groups,
                                       EligibleBins(groups, MinOccurrences, MinNodes))} :
            \E order \in {SortedAsc(DOMAIN groups)} :
                \E outcome \in [DOMAIN graphs -> GraphOutcomes] :
                  LET results == DynamicsLoop(groups, order, 1, outcome, <<>>) IN
                  /\ lib' = Consulted(graphs, outcome)
                  /\ IF results = <<>>
                     THEN \* pd.DataFrame([]) has no column "time_bin" to sort by
                          /\ ret' = Returned("analyze_biogeographic_dynamics", "KeyError")
                          /\ UNCHANGED network
                     ELSE /\ network' = ByTimeDescending(results, "time_bin")
                          /\ ret' = Returned("analyze_biogeographic_dynamics", "None")

\* the whole table whatever its size
HeavySampleAll(df, start) == df

\* export_web_data.py lines 29-33: df.sample(n=20000, random_state=42) when the
\* table is larger, else a copy. The seeded generator draws the same rows of
\* a table every time; which rows it draws is not known, and start stands for
\* it: the sample holds the HeavySampleSize rows that follow row start.
HeavySample(df, start) ==
    IF Len(df.rows) > HeavySampleSize
    THEN [cols |-> df.cols,
          rows |-> AsList([k \in 1..HeavySampleSize |->
                              df.rows[((start + k - 1) % Len(df.rows)) + 1]])]
    ELSE df

\* export_web_data.py line 36
ExportDiversity(df) ==
    LET times == SortedDesc(TimeBins(df))
    IN  [k \in 1..Len(times) |->
            [time |-> times[k], count |-> Cardinality(GenusSet(BinRows(df, times[k])))]]

\* export_web_data.py lines 54-60: min, max and count of mid_ma per genus
GenusSummary(df) ==
    [g \in GenusSet(df.rows) |->
        LET ages == {df.rows[i]["mid_ma"].n :
                        i \in {j \in 1..Len(df.rows) : df.rows[j]["genus"] = g}}
        IN  [min_age |-> SetMin(ages), max_age |-> SetMax(ages),
             count |-> GenusCount(df.rows, g)]]

\* export_web_data.py lines 78-108
RECURSIVE ExportSotaLoop(_, _, _, _, _)
ExportSotaLoop(groups, order, i, outcome, sota_results) ==
    IF i > Len(order) THEN sota_results
    ELSE LET group == groups[order[i]]
             modularity == IF outcome[order[i]].raised THEN NoneModularity
                           ELSE outcome[order[i]].modularity
         IN  IF TooFew(group.size, ExportMinOccurrences)
             THEN ExportSotaLoop(groups, order, i + 1, outcome, sota_results)
             ELSE IF \/ Cardinality(group.localities) < ExportMinNodes
                     \/ Cardinality(group.genera) < ExportMinNodes
             THEN ExportSotaLoop(groups, order, i + 1, outcome, sota_results)
             ELSE ExportSotaLoop(groups, order, i + 1, outcome,
                      Append(sota_results,
                             [time |-> order[i],
                              modularity |-> modularity,
                              mean_abs_lat |-> group.mean_abs_lat]))

\* export_web_data.py lines 112-131 from the i-th time bin on: the series the
\* loop can append, a bin without occurrences appending nothing
RECURSIVE ExportSqsFrom(_, _, _)
ExportSqsFrom(df, times, i) ==
    IF i > Len(times) THEN {<<>>}
    ELSE LET values == SqsCounts(BinRows(df, times[i]), DefaultQuota)
             rest == ExportSqsFrom(df, times, i + 1)
         IN  IF values = {} THEN rest
             ELSE {<<[time |-> times[i], sqs |-> v]>> \o r : v \in values, r \in rest}

\* export_web_data.py lines 112-131: the SQS series at quota 0.5
ExportSqs(df) == ExportSqsFrom(df, SortedDesc(TimeBins(df)), 1)

\* export_web_data.py lines 135-155: one ml_record per genus of every bin but
\* the youngest
MlRecordCount(groups) ==
    LET time_bins == SortedDesc(DOMAIN groups)
    IN  SumSeq([i \in 1..(IF time_bins = <<>> THEN 0 ELSE Len(time_bins) - 1) |->
                   Cardinality(groups[time_bins[i]].genera)])

ExportDashboardData(data_path) ==
    /\ UNCHANGED <<fs, diversity, sqs, rates, procDir, bins, network, nullModel, rng>>
    /\ ret' = Returned("export_dashboard_data", "None")
    /\ IF ~CanRead(data_path)
       THEN UNCHANGED <<web, lib, heavy>>
       ELSE \E df \in {ExportBinned(fs[data_path].df)} :
            \E diversity_data \in {ExportDiversity(df)} :
            \E explorer_data \in {GenusSummary(df)} :
            \E sqs_results \in ExportSqs(df) :
            \E df_heavy \in {HeavySample(df, rng)} :
            \E groups \in {Groups(ExportLocalities(df_heavy))} :
            \E graphs \in {Projections(groups,
                                       EligibleBins(groups, ExportMinOccurrences,
                                                    ExportMinNodes))} :
            \E order \in {SortedAsc(DOMAIN groups)} :
            \E ml \in {MlRecordCount(groups) > 100} :
                \E outcome \in [DOMAIN graphs -> GraphOutcomes] :
                    /\ lib' = Consulted(graphs, outcome)
                    /\ heavy' = df_heavy.rows
                    /\ web' = [diversity |-> diversity_data,
                               sqs |-> sqs_results,
                               map |-> explorer_data,
                               sota |-> ByTimeDescending(
                                            ExportSotaLoop(groups, order, 1, outcome, <<>>),
                                            "time"),
                               ml |-> ml]

\* bin_sizes.idxmax(): the first of the largest bins in index order
TargetBin(df) ==
    LET size == [t \in TimeBins(df) |-> Len(BinRows(df, t))]
    IN  SetMin({t \in TimeBins(df) : \A u \in TimeBins(df) : size[u] <= size[t]})

\* a >= b on two modularities
AtLeast(a, b) == a.num * b.den >= b.num * a.den

\* the null modularities counted from the wrong side: m <= observed
CountAtMost(null_modularities, observed_modularity) ==
    Cardinality({i \in 1..Len(null_modularities) :
                    AtLeast(observed_modularity, null_modularities[i])})

\* the count with ties left out: m > observed
CountAbove(null_modularities, observed_modularity) ==
    Cardinality({i \in 1..Len(null_modularities) :
                    ~AtLeast(observed_modularity, null_modularities[i])})

\* sum(1 for m in null_modularities if m >= observed_modularity)
CountAtLeast(null_modularities, observed_modularity) ==
    Cardinality({i \in 1..Len(null_modularities) :
                    AtLeast(null_modularities[i], observed_modularity)})

\* the iterations of lines 194-209: a failing iteration appends nothing
RECURSIVE NullDistribution(_, _)
NullDistribution(outcomes, i) ==
    IF i > Len(outcomes) THEN <<>>
    ELSE (IF outcomes[i].raised THEN <<>> ELSE <<outcomes[i].modularity>>)
         \o NullDistribution(outcomes, i + 1)

\* np.random.permutation(group["genus"].values): the generator is not seeded,
\* so any rearrangement can come out; these are the ones tried
Shuffles == {"same", "reversed", "swapped", "rotated"}

\* the rearrangement how of the values s
Permutation(how, s) ==
    LET n == Len(s) IN
    [k \in 1..n |->
        CASE how = "reversed" -> s[n + 1 - k]
          [] how = "swapped" -> IF n < 2 THEN s[k]
                                ELSE IF k = 1 THEN s[2] ELSE IF k = 2 THEN s[1] ELSE s[k]
          [] how = "rotated" -> s[(k % n) + 1]
          [] OTHER -> s[k]]

\* list(zip(group["locality"], shuffled_genera)) as the edges add_edges_from keeps
ShuffledEdges(group, shuffled_genera) ==
    {<<group[k]["locality"], shuffled_genera[k]>> : k \in 1..Len(group)}

CalculateNullModel(data_path, n_iterations, drawn) ==
    /\ UNCHANGED <<fs, diversity, sqs, rates, procDir, bins, network, web, rng, heavy>>
    /\ IF ~CanRead(data_path)
       THEN /\ ret' = Returned("calculate_null_model", "FileNotFoundError")
            /\ UNCHANGED <<nullModel, lib>>
       ELSE \E df \in {NullModelBinned(fs[data_path].df)} :
            IF df.rows = <<>>
            THEN \* idxmax of an empty series
                 /\ ret' = Returned("calculate_null_model", "ValueError")
                 /\ UNCHANGED <<nullModel, lib>>
            ELSE \E target_bin \in {TargetBin(df)} :
                 \E group \in {BinRows(df, target_bin)} :
                 \E localities \in {LocalitySet(group)} :
                     IF \/ Cardinality(localities) < NullMinNodes
                        \/ Cardinality(GenusSet(group)) < NullMinNodes
                     THEN /\ ret' = Returned("calculate_null_model", "None")
                          /\ UNCHANGED <<nullModel, lib>>
                     ELSE \E graph \in {ProjectedGraph(BipartiteEdges(group), localities)} :
                          \E shuffled \in {[i \in 1..n_iterations |->
                                               Permutation(drawn[i],
                                                   [k \in 1..Len(group) |-> group[k]["genus"]])]} :
                          \E given \in {[graph |-> graph,
                                           edges |-> BipartiteEdges(group),
                                           genera |-> [k \in 1..Len(group) |-> group[k]["genus"]],
                                           shuffled_genera |-> shuffled,
                                           shuffled_edges |->
                                               [i \in 1..n_iterations |->
                                                   ShuffledEdges(group, shuffled[i])],
                                           null_graphs |->
                                               [i \in 1..n_iterations |->
                                                   ProjectedGraph(
                                                       ShuffledEdges(group, shuffled[i]),
                                                       localities)]]} :
                          \E observed \in GraphOutcomes :
                          \E outcomes \in [1..n_iterations -> GraphOutcomes] :
                            LET null_modularities == NullDistribution(outcomes, 1) IN
                            /\ lib' = [given |-> given, observed |-> observed,
                                       outcomes |-> outcomes]
                            /\ IF observed.raised
                               THEN \* lines 185-188 stand outside any try
                                    /\ ret' = Returned("calculate_null_model", "GraphError")
                                    /\ UNCHANGED nullModel
                               ELSE IF null_modularities = <<>>
                               THEN /\ ret' = Returned("calculate_null_model",
                                                       "ZeroDivisionError")
                                    /\ UNCHANGED nullModel
                               ELSE LET p_value ==
                                          Ratio(CountAtLeast(null_modularities,
                                                             observed.modularity),
                                                Len(null_modularities))
                                    IN
                                    /\ nullModel' =
                                          [observed_modularity |-> observed.modularity,
                                           null_distribution |-> null_modularities,
                                           p_value |-> p_value,
                                           time_bin |-> target_bin,
                                           significant |-> 100 * p_value.num < 5 * p_value.den]
                                    /\ ret' = Returned("calculate_null_model", "output")

(***************************************************************************)
(* Tables for the network engine: per time bin a number of occurrences on  *)
(* either side of the thresholds, spread over a list of latitudes and a    *)
(* number of genera, and one record without coordinates                    *)
(***************************************************************************)
GenusNames == <<"Aus", "Bus", "Cus", "Dus", "Eus", "Fus", "Gus", "Hus", "Ius", "Jus">>

\* n occurrences at age Ma: the k-th at latitude lats[k mod |lats|], of the
\* genus (k + (k div |lats|) mod spread) mod genera, so that a latitude holds
\* spread genera; then one record that has no coordinates
NetGroup(age, n, shape) ==
    [k \in 1..n |->
        [mid_ma |-> Num(age * Scale),
         lat |-> Num(shape.lats[((k - 1) % Len(shape.lats)) + 1] * Scale),
         lng |-> Num(0),
         genus |-> Str(GenusNames[(((k - 1) + (((k - 1) \div Len(shape.lats)) % shape.spread))
                                       % shape.genera) + 1])]]
    \o <<[mid_ma |-> Num(age * Scale), lat |-> NaN, lng |-> NaN, genus |-> Str("Aus")]>>

\* the ages of the bins a table can hold, in Ma
NetAges == <<100, 105>>

\* the groups a bin can hold; <<>> leaves the bin out of the table
NetGroups(k, sizes, shapes) ==
    {<<>>} \cup {NetGroup(NetAges[k], n, shape) : n \in sizes, shape \in shapes}

RECURSIVE NetRowSeqs(_, _, _)
NetRowSeqs(k, sizes, shapes) ==
    IF k > Len(NetAges) THEN {<<>>}
    ELSE {g \o rest : g \in NetGroups(k, sizes, shapes),
                      rest \in NetRowSeqs(k + 1, sizes, shapes)}

NetTables(sizes, shapes) ==
    {[cols |-> AnalysisCols, rows |-> rows] : rows \in NetRowSeqs(1, sizes, shapes)}

\* six cells and six genera, three genera to a cell; five latitudes in four
\* cells; four genera
DynamicsShapes ==
    {[lats |-> <<-20, -10, 0, 10, 20, 30>>, genera |-> 6, spread |-> 3],
     [lats |-> <<-20, -10, 0, 10, 11>>, genera |-> 5, spread |-> 5],
     [lats |-> <<-20, -10, 0, 10, 20>>, genera |-> 4, spread |-> 4]}

\* group sizes from one below each threshold to MaxSurplus above it
MaxSurplus == 0

DynamicsSizes == {49, 99} \cup (50..(50 + MaxSurplus)) \cup (100..(100 + MaxSurplus))

DynamicsInit ==
    /\ procDir = "data/processed"
    /\ \E table \in NetTables(DynamicsSizes, DynamicsShapes) :
          fs = (MergedPath :> File(TRUE, 0, table))
    /\ ret = NoCall
    /\ diversity = <<>>
    /\ sqs = <<>>
    /\ rates = <<>>
    /\ NetIdle

DynamicsNext ==
    \/ AnalyzeBiogeographicDynamics(MergedPath)
    \/ ExportDashboardData(MergedPath)

SpecDynamics == DynamicsInit /\ [][DynamicsNext]_vars

\* ten cells and ten genera; ten latitudes in nine cells; nine genera
NullShapes ==
    {[lats |-> <<-20, -15, -10, -5, 0, 5, 10, 15, 20, 25>>, genera |-> 10, spread |-> 10],
     [lats |-> <<-20, -15, -10, -5, 0, 5, 10, 15, 20, 21>>, genera |-> 9, spread |-> 9]}

NullSizes == {20, 30}

MaxIterations == 2

NullInit ==
    /\ procDir = "data/processed"
    /\ \E table \in NetTables(NullSizes, NullShapes) :
          fs = (MergedPath :> File(TRUE, 0, table))
    /\ ret = NoCall
    /\ diversity = <<>>
    /\ sqs = <<>>
    /\ rates = <<>>
    /\ NetIdle

\* every iteration draws the same rearrangement
NullNext ==
    \E n_iterations \in 0..MaxIterations :
        CalculateNullModel(MergedPath, n_iterations, [i \in 1..n_iterations |-> "reversed"])

SpecNull == NullInit /\ [][NullNext]_vars

\* one iteration, any of the rearrangements
ShuffleNext ==
    \E drawn \in [1..1 -> Shuffles] : CalculateNullModel(MergedPath, 1, drawn)

SpecShuffle == NullInit /\ [][ShuffleNext]_vars

(***************************************************************************)
(* Tables around the subsampling size of export_dashboard_data             *)
(***************************************************************************)
\* how many rows over HeavySampleSize the largest table holds
MaxHeavySurplus == 1

\* the places the seeded generator may start drawing at
SeedStarts == {0, 7}

\* two time bins of located records, the older too poor in genera for the
\* network analysis
HeavyTables ==
    {[cols |-> AnalysisCols,
      rows |-> NetGroup(NetAges[1], HeavySampleSize \div 2 + surplus,
                        [lats |-> <<-20, -10, 0, 10, 20>>, genera |-> 5, spread |-> 5])
               \o NetGroup(NetAges[2], HeavySampleSize \div 2,
                           [lats |-> <<-20, -10, 0, 10, 20>>, genera |-> 4, spread |-> 4])] :
        surplus \in 0..MaxHeavySurplus}

\* tables far below the subsampling size
LightTables == NetTables({ExportMinOccurrences}, DynamicsShapes)

HeavyInit ==
    /\ procDir = "data/processed"
    /\ \E table \in HeavyTables \cup LightTables :
          fs = (MergedPath :> File(TRUE, 0, table))
    /\ ret = NoCall
    /\ diversity = <<>>
    /\ sqs = <<>>
    /\ rates = <<>>
    /\ bins = [component |-> "", df |-> EmptyFrame]
    /\ network = <<>>
    /\ web = <<>>
    /\ nullModel = <<>>
    /\ lib = <<>>
    /\ rng \in SeedStarts
    /\ heavy = <<>>

HeavyNext == ExportDashboardData(MergedPath)

SpecHeavy == HeavyInit /\ [][HeavyNext]_vars

(***************************************************************************)
(* SpecCompare: the two diversity analyses and the export on one table,    *)
(* some of whose records have no latitude                                  *)
(***************************************************************************)
MaxCompareRows == 3

CompareCells ==
    [mid_ma |-> {Num(500 * Scale), Num(505 * Scale)},
     lat |-> {Num(0), NaN}, lng |-> {Num(0)},
     genus |-> {Str("X"), Str("Y")}]

CompareInit ==
    /\ procDir = "data/processed"
    /\ \E table \in Frames(AnalysisCols, CompareCells, 1, MaxCompareRows) :
          fs = (MergedPath :> File(TRUE, 0, table))
    /\ ret = NoCall
    /\ diversity = <<>>
    /\ sqs = <<>>
    /\ rates = <<>>
    /\ NetIdle

CompareNext ==
    \/ PlotDiversityCurve(MergedPath)
    \/ CalculateSqsDiversity(MergedPath, DefaultQuota)
    \/ ExportDashboardData(MergedPath)

SpecCompare == CompareInit /\ [][CompareNext]_vars

\* the records the network analyses keep: all four fields present
Located(r) == \A c \in {"mid_ma", "lat", "lng", "genus"} : ~IsNull(r[c])

\* the multiple of 5 nearest to n, the even multiple on a tie
NearestBin(n) ==
    LET w == BinWidth * Scale
    IN  CHOOSE t \in {w * (n \div w), w * (n \div w) + w} : IsBinOf(t, n)

LocatedOfBin(t) ==
    {i \in 1..Len(InputRows) : Located(InputRows[i]) /\ IsBinOf(t, InputRows[i]["mid_ma"].n)}

LocatedBins ==
    {NearestBin(InputRows[i]["mid_ma"].n) : i \in {j \in 1..Len(InputRows) : Located(InputRows[j])}}

\* the 5-degree cells and the genera of the located records of bin t
CellsOfBin(t) ==
    {<<NearestBin(InputRows[i]["lat"].n), NearestBin(InputRows[i]["lng"].n)>> :
        i \in LocatedOfBin(t)}

GeneraOfLocated(t) == {InputRows[i]["genus"] : i \in LocatedOfBin(t)}

\* the bin has at least min occurrences, 5 distinct cells and 5 distinct genera
Meets(t, min) ==
    /\ Cardinality(LocatedOfBin(t)) >= min
    /\ Cardinality(CellsOfBin(t)) >= 5
    /\ Cardinality(GeneraOfLocated(t)) >= 5

DynamicsRan == ret.op = "analyze_biogeographic_dynamics"

ExportRan == ret.op = "export_dashboard_data"

\* C15: the network analysis reports a time bin if and only if the bin has at
\* least the minimum number of occurrences (100 in
\* analyze_biogeographic_dynamics, 50 in export_dashboard_data), at least 5
\* distinct locality bins and at least 5 distinct genera; no other bin appears
\* in the results.
C15_NetworkThresholds ==
    /\ DynamicsRan =>
          {network[i].time_bin : i \in 1..Len(network)}
              = {t \in LocatedBins : Meets(t, 100)}
    /\ ExportRan =>
          {web.sota[i].time : i \in 1..Len(web.sota)}
              = {t \in LocatedBins : Meets(t, 50)}

\* a bin of exactly 100 occurrences is reported next to one of 99 that is not
C15_Witness ==
    /\ DynamicsRan
    /\ Len(network) = 1
    /\ Cardinality(LocatedOfBin(network[1].time_bin)) = 100
    /\ \E t \in LocatedBins :
          /\ Cardinality(LocatedOfBin(t)) = 99
          /\ Cardinality(CellsOfBin(t)) = 6
          /\ Cardinality(GeneraOfLocated(t)) = 6

RECURSIVE SumAbsLat(_)
SumAbsLat(I) ==
    IF I = {} THEN 0
    ELSE LET i == CHOOSE j \in I : TRUE
         IN  AbsNum(InputRows[i]["lat"].n) + SumAbsLat(I \ {i})

\* q is the mean absolute latitude of the located records of bin t
IsMeanAbsLat(q, t) == q.num * Cardinality(LocatedOfBin(t)) = SumAbsLat(LocatedOfBin(t)) * q.den

\* C16: an eligible bin for which graph projection or community detection
\* raised is still reported, its modularity missing and its mean absolute
\* latitude and diversity computed as for any bin, and every other eligible
\* bin is reported with the modularity the library returned.
C16_GraphFailureReported ==
    /\ DynamicsRan =>
          \A t \in {u \in LocatedBins : Meets(u, 100)} :
              \E i \in 1..Len(network) :
                  /\ network[i].time_bin = t
                  /\ network[i].modularity
                        = IF lib[t].raised THEN NanModularity ELSE lib[t].modularity
                  /\ IsMeanAbsLat(network[i].mean_abs_lat, t)
                  /\ network[i].diversity = Cardinality(GeneraOfLocated(t))
    /\ ExportRan =>
          \A t \in {u \in LocatedBins : Meets(u, 50)} :
              \E i \in 1..Len(web.sota) :
                  /\ web.sota[i].time = t
                  /\ web.sota[i].modularity
                        = IF lib[t].raised THEN NoneModularity ELSE lib[t].modularity
                  /\ IsMeanAbsLat(web.sota[i].mean_abs_lat, t)

\* the library raised for the older of two eligible bins and answered for the
\* younger; both are reported
C16_Witness ==
    /\ DynamicsRan
    /\ Len(network) = 2
    /\ network[1].modularity = NanModularity
    /\ lib[network[1].time_bin].raised
    /\ network[2].modularity = Modularity(1, 2)
    /\ network[1].diversity = 6

\* C17: analyze_biogeographic_dynamics completes without raising for every
\* input table, also when no time bin meets the thresholds.
C17_DynamicsCompletes == DynamicsRan => ret.val = "None"

StrictlyAbove(a, b) == a.num * b.den > b.num * a.den

\* C20: when the observed modularity is strictly greater than every
\* modularity of a non-empty null distribution, p_value is 0 and significant
\* is true.
C20_PValueZero ==
    (/\ ret = Returned("calculate_null_model", "output")
     /\ \A i \in 1..Len(nullModel.null_distribution) :
           StrictlyAbove(nullModel.observed_modularity, nullModel.null_distribution[i]))
        => /\ nullModel.p_value.num = 0
           /\ nullModel.significant

\* observed 1/2 above a null distribution of two zeros
C20_Witness ==
    /\ ret = Returned("calculate_null_model", "output")
    /\ nullModel.observed_modularity = Modularity(1, 2)
    /\ nullModel.null_distribution = <<Modularity(0, 1), Modularity(0, 1)>>
    /\ nullModel.p_value.num = 0
    /\ nullModel.significant

NullModelReturned == ret = Returned("calculate_null_model", "output")

\* the entries of the written null distribution that are >= the observed value
NotBelowObserved ==
    {i \in 1..Len(nullModel.null_distribution) :
        ~StrictlyAbove(nullModel.observed_modularity, nullModel.null_distribution[i])}

\* C21: whenever calculate_null_model writes a result, p_value is the number
\* of null modularities >= the observed one divided by the size of the null
\* distribution, lies in [0, 1], and significant is true exactly when
\* p_value < 0.05.
C21_PValueFraction ==
    NullModelReturned =>
        /\ nullModel.p_value.den > 0
        /\ nullModel.p_value.num * Len(nullModel.null_distribution)
              = Cardinality(NotBelowObserved) * nullModel.p_value.den
        /\ 0 <= nullModel.p_value.num
        /\ nullModel.p_value.num <= nullModel.p_value.den
        /\ nullModel.significant <=> 100 * nullModel.p_value.num < 5 * nullModel.p_value.den

\* one of two null modularities ties with the observed one: p = 1/2, not
\* significant
C21_Witness ==
    /\ NullModelReturned
    /\ nullModel.observed_modularity = Modularity(1, 2)
    /\ nullModel.null_distribution = <<Modularity(0, 1), Modularity(1, 2)>>
    /\ nullModel.p_value = Ratio(1, 2)
    /\ ~nullModel.significant

\* the run got as far as the permutation loop: the group was large enough and
\* the library answered for the observed graph
NullLoopRan ==
    /\ ret.op = "calculate_null_model"
    /\ ret.val \in {"output", "ZeroDivisionError"}

\* the iterations for which the library answered
Succeeded == {i \in DOMAIN lib.outcomes : ~lib.outcomes[i].raised}

\* C22: an iteration whose graph projection or community detection fails is
\* left out of the null distribution and not retried, and calculate_null_model
\* still completes with a result, for every n_iterations >= 0 and every set
\* of failing iterations, all of them included.
C22_FailedIterationsExcluded ==
    NullLoopRan =>
        /\ ret.val = "output"
        /\ Len(nullModel.null_distribution) = Cardinality(Succeeded)

\* the table export_dashboard_data keeps after lines 23-24
Filtered == ExportBinned(fs[MergedPath].df).rows

\* how often a row stands in a list of rows
Copies(rows, r) == Cardinality({i \in 1..Len(rows) : rows[i] = r})

\* sample holds rows of table, none more often than table does
DrawnFrom(sample, table) ==
    \A r \in {sample[i] : i \in DOMAIN sample} : Copies(sample, r) <= Copies(table, r)

\* the graphs the library was given, bin by bin
GraphsGiven(l) == [t \in DOMAIN l |-> l[t].graph]

DegreeIn(edges, l) == Cardinality({e \in edges : e[1] = l})

\* how often genus g stands in a list of labels
LabelCount(labels, g) == Cardinality({k \in 1..Len(labels) : labels[k] = g})

\* C24: permuting the genus labels across the records of the bin leaves every
\* locality node of each rebuilt bipartite graph with the degree it has in the
\* observed bipartite graph, and leaves the multiset of genus labels as it was.
C24_DegreesPreserved ==
    NullLoopRan =>
        \A i \in DOMAIN lib.given.shuffled_edges :
            /\ \A l \in {e[1] : e \in lib.given.edges} :
                   DegreeIn(lib.given.shuffled_edges[i], l) = DegreeIn(lib.given.edges, l)
            /\ \A g \in {lib.given.genera[k] : k \in DOMAIN lib.given.genera} :
                   LabelCount(lib.given.shuffled_genera[i], g)
                      = LabelCount(lib.given.genera, g)

\* the (cell, genus) pairs that occur among the located records of bin t
Occurring(t) ==
    {<<<<NearestBin(InputRows[i]["lat"].n), NearestBin(InputRows[i]["lng"].n)>>,
       InputRows[i]["genus"]>> : i \in LocatedOfBin(t)}

\* the cell a locality node stands for
CellOf(node) == <<node.n, node.m>>

\* some genus occurs in both cells
ShareGenus(occurring, c, d) ==
    \E g \in {o[2] : o \in occurring} : <<c, g>> \in occurring /\ <<d, g>> \in occurring

\* C25: in the projected locality graph of a bin two distinct localities are
\* adjacent if and only if some genus occurs in both; the bipartite graph has
\* one edge for each (locality, genus) pair that occurs, however often it
\* occurs, and sharing more than one genus adds nothing to the projected
\* edge set.
C25_ProjectionBySharedGenus ==
    (DynamicsRan \/ ExportRan) =>
        \A t \in DOMAIN lib : \A occurring \in {Occurring(t)} :
            /\ {CellOf(a) : a \in lib[t].graph.nodes} = {o[1] : o \in occurring}
            /\ \A a, b \in lib[t].graph.nodes :
                   a # b => ({a, b} \in lib[t].graph.edges
                                <=> ShareGenus(occurring, CellOf(a), CellOf(b)))
            /\ \A e \in lib[t].graph.edges :
                   Cardinality(e) = 2 /\ e \subseteq lib[t].graph.nodes
            /\ {<<CellOf(e[1]), e[2]>> : e \in lib[t].bipartite} = occurring
            /\ Cardinality(lib[t].bipartite) = Cardinality(occurring)

\* a bin of 100 records in six cells, three genera to a cell: eighteen
\* bipartite edges; of three cells the first shares two genera with the
\* second and none with the third
C25_Witness ==
    /\ DynamicsRan
    /\ \E t \in DOMAIN lib :
          /\ Cardinality(LocatedOfBin(t)) = 100
          /\ Cardinality(lib[t].bipartite) = 18
          /\ \E a, b, c \in lib[t].graph.nodes :
                /\ a # b /\ a # c
                /\ {a, b} \in lib[t].graph.edges
                /\ Cardinality({g \in GeneraOfLocated(t) :
                                   /\ <<CellOf(a), g>> \in Occurring(t)
                                   /\ <<CellOf(b), g>> \in Occurring(t)}) = 2
                /\ {a, c} \notin lib[t].graph.edges

\* the ages halfway between two bins: mid_ma = 5k + 2.5
IsTie(n) == 2 * (n % (BinWidth * Scale)) = BinWidth * Scale

\* the bin the tie 5k + 2.5 belongs to: 5k for even k, 5(k + 1) for odd k
TieBin(n) ==
    LET k == n \div (BinWidth * Scale)
    IN  IF k % 2 = 0 THEN k * BinWidth * Scale ELSE (k + 1) * BinWidth * Scale

\* C26: binning rounds ties half-to-even: a mid_ma of 5k + 2.5 is in bin 5k
\* when k is even and in bin 5(k + 1) when k is odd (2.5 is in bin 0, 7.5 and
\* 12.5 are in bin 10), and every mid_ma has one bin, a multiple of 5 at
\* distance at most 2.5.
C26_TiesToEven ==
    HasTimeBin =>
        \A i \in 1..Len(BinnedRows) :
            \A n \in {BinnedRows[i]["mid_ma"].n} : \A t \in {BinnedRows[i]["time_bin"]} :
                /\ t.kind = "num"
                /\ t.n % (BinWidth * Scale) = 0
                /\ 2 * (n - t.n) <= BinWidth * Scale
                /\ 2 * (t.n - n) <= BinWidth * Scale
                /\ IsTie(n) => t.n = TieBin(n)
                /\ n = Num(10).n => t = Num(0)
                /\ n = Num(30).n => t = Num(10 * Scale)
                /\ n = Num(50).n => t = Num(10 * Scale)
                /\ \A j \in 1..Len(BinnedRows) :
                       BinnedRows[j]["mid_ma"].n = n => BinnedRows[j]["time_bin"] = t

\* two records at 7.5 Ma and 12.5 Ma that calculate_rates put in bin 10
C26_Witness ==
    /\ bins.component = "calculate_rates"
    /\ \E i, j \in 1..Len(BinnedRows) :
          /\ BinnedRows[i]["mid_ma"] = Num(30) /\ BinnedRows[i]["time_bin"] = Num(10 * Scale)
          /\ BinnedRows[j]["mid_ma"] = Num(50) /\ BinnedRows[j]["time_bin"] = Num(10 * Scale)

\* the table with its rows rearranged; exchanges of the first two rows and
\* rotations by one row generate every order of the rows, and every table of
\* a given length is among the inputs
Reordered(df, how) == [cols |-> df.cols, rows |-> AsList(Permutation(how, df.rows))]

\* the occurrences of the genera S among the records of bin t
OccurrencesOf(S, t) ==
    Cardinality({i \in 1..Len(InputRows) :
                    /\ HasBoth(InputRows[i])
                    /\ IsBinOf(t, InputRows[i]["mid_ma"].n)
                    /\ InputRows[i]["genus"] \in S})

\* some k genera of bin t cover the share q of its occurrences
Covers(k, t, q) ==
    \E S \in SUBSET GeneraOfBin(t) :
        /\ Cardinality(S) = k
        /\ OccurrencesOf(S, t) * q.den >= q.num * OccurrencesOf(GeneraOfBin(t), t)

\* C27: for a bin and a quota the SQS count is one number, whatever the order
\* of equally frequent genera and whatever the order of the rows: the least
\* number of genera that cover the quota.
C27_SqsOrderIndependent ==
    \A q \in DOMAIN sqs : \A t \in DOMAIN sqs[q] :
        /\ Covers(sqs[q][t], t, q)
        /\ \A k \in 0..(sqs[q][t] - 1) : ~Covers(k, t, q)
        /\ \A how \in Shuffles :
               \A df \in {Reordered(fs[MergedPath].df, how)} :
                   /\ SqsCounts(BinRows(Binned(df), t), q) = {sqs[q][t]}
                   /\ q = DefaultQuota =>
                          \A series \in ExportSqs(ExportBinned(df)) :
                              \A i \in 1..Len(series) :
                                  series[i].time = t => series[i].sqs = sqs[q][t]

\* a bin of four records, two of each of two genera, counted as one genus at
\* quota 0.5: the genera can be ranked either way
C27_Witness ==
    /\ DefaultQuota \in DOMAIN sqs
    /\ \E t \in DOMAIN sqs[DefaultQuota] :
          /\ Cardinality(GeneraOfBin(t)) = 2
          /\ \A g \in GeneraOfBin(t) : OccurrencesOf({g}, t) = 2
          /\ Cardinality(DescendingOrders(BinRows(Binned(fs[MergedPath].df), t))) = 2
          /\ sqs[DefaultQuota][t] = 1

\* an exported series as the mapping from time bin to the value of a field
SeriesOf(series, field) ==
    [t \in {series[i].time : i \in 1..Len(series)} |->
        series[CHOOSE i \in 1..Len(series) : series[i].time = t][field]]

Exported == web # <<>>

\* C28: for the same merged table the raw diversity and the SQS count at
\* quota 0.5 that export_dashboard_data exports are, bin for bin, those of
\* plot_diversity_curve and calculate_sqs_diversity, also when records with
\* mid_ma and genus lack lat or lng.
C28_ExportAgrees ==
    /\ (Exported /\ diversity # <<>>) => SeriesOf(web.diversity, "count") = diversity
    /\ (Exported /\ DefaultQuota \in DOMAIN sqs) =>
           SeriesOf(web.sqs, "sqs") = sqs[DefaultQuota]

\* every record of the table has its coordinates
AllLocated == \A i \in 1..Len(InputRows) : ~IsNull(InputRows[i]["lat"])

\* the agreement on the tables whose records all have coordinates
C28_AgreesWhenLocated == AllLocated => C28_ExportAgrees

\* how many times the record r is among rows
CountIn(rows, r) == Cardinality({i \in 1..Len(rows) : rows[i] = r})

\* the per-source tables of the directory that can be read
ReadableTables == {p \in SourceTables : fs[p].ok}

\* the records of the tables S
RecordsOf(S) == UNION {Range(fs[p].df.rows) : p \in S}

\* a merge_datasets step after which the merged table holds each record as
\* many times as the readable per-source tables held it together
MergedEverySource ==
    (ret'.op = "merge_datasets" /\ ReadableTables # {}) =>
        \A after \in {fs'} :
            /\ MergedPath \in DOMAIN after
            /\ \A r \in RecordsOf(ReadableTables) \cup Range(after[MergedPath].df.rows) :
                   CountIn(after[MergedPath].df.rows, r)
                       = (IF PbdbTablePath \in ReadableTables
                          THEN CountIn(fs[PbdbTablePath].df.rows, r) ELSE 0)
                         + (IF NeotomaTablePath \in ReadableTables
                            THEN CountIn(fs[NeotomaTablePath].df.rows, r) ELSE 0)

\* C29: merge_datasets reads every per-source '*_occurrences.parquet' table
\* of its input directory, whatever the directory is called (also when its
\* path contains 'merged'): the merged table holds each record as many times
\* as the per-source tables present hold it together.
C29_MergeReadsEverySource == [][MergedEverySource]_vars

\* the same in the directories whose path does not contain 'merged'
C29_ElsewhereEverySource == [][~Contains(procDir, "merged") => MergedEverySource]_vars

\* the run that just returned was a normalize run of the source that wrote
\* nothing: it found no input or could not read it
FailedRun(r, op) == r.op = op /\ r.val = "None"

\* the table at path is left as it was
Untouched(path) ==
    path \in DOMAIN fs => \A after \in {fs'} : path \in DOMAIN after /\ after[path] = fs[path]

\* the merged table written by the step holds every record of the table at path
Includes(path) ==
    path \in ReadableTables =>
        \A after \in {fs'} :
            /\ MergedPath \in DOMAIN after
            /\ \A r \in Range(fs[path].df.rows) :
                   CountIn(after[MergedPath].df.rows, r) >= CountIn(fs[path].df.rows, r)

\* C30: a normalize run that finds no input, or cannot read it, leaves the
\* normalized table an earlier run of that source wrote as it was, and the
\* merge_datasets run that follows puts that table's records in the merged
\* table.
C30_StaleTableKept ==
    [][/\ FailedRun(ret', "normalize_pbdb") => Untouched(PbdbTablePath)
       /\ FailedRun(ret', "normalize_neotoma") => Untouched(NeotomaTablePath)
       /\ (FailedRun(ret, "normalize_pbdb") /\ ret'.op = "merge_datasets")
             => (Includes(PbdbTablePath) /\ MergedEverySource)
       /\ (FailedRun(ret, "normalize_neotoma") /\ ret'.op = "merge_datasets")
             => (Includes(NeotomaTablePath) /\ MergedEverySource)]_vars

\* normalize_pbdb has just found no raw file, the table of an earlier run is
\* in place with its records, and an earlier merge has written a merged table
C30_Witness ==
    /\ FailedRun(ret, "normalize_pbdb")
    /\ PbdbRawFiles = {}
    /\ PbdbTablePath \in ReadableTables
    /\ Len(Normalized(PbdbTablePath).rows) = MaxFileRows
    /\ MergedPath \in DOMAIN fs
====
